---- MODULE Spec2Model ----
(***************************************************************************)
(* Model of the txdemo ledger engine (src/src/account_service.rs) and of   *)
(* the account balance it mutates (src/src/core.rs).                       *)
(*                                                                         *)
(* An amount is the integer number of fractions held by                    *)
(* UnsignedAssetCount (FixedDecimal<u64, 4>).  The backing integer is      *)
(* scaled down from u64 to the range 0..MaxAsset so that the overflow      *)
(* branches of the checked arithmetic are reachable.                       *)
(***************************************************************************)
EXTENDS Integers, FiniteSets, Sequences, TLC

(* ------------------------------ bounds -------------------------------- *)

\* Client ids are 1..NumClients.
NumClients == 2

\* Transaction ids are 1..NumTx.
NumTx == 2

\* Largest value of the (scaled-down) backing integer of an amount.
MaxAsset == 15

\* Amounts carried by the submitted commands.
Amounts == {4, 10}

ClientIds == 1..NumClients

TransactionIds == 1..NumTx

(* --------------------------- core.rs: amounts ------------------------- *)

\* Option::None of the checked arithmetic.
None == -1

checked_add(a, b) == IF a + b <= MaxAsset THEN a + b ELSE None

checked_sub(a, b) == IF a >= b THEN a - b ELSE None

(* ------------------------ core.rs: AccountBalance --------------------- *)

\* Result of a balance operation: ok = FALSE is Err(BalanceUpdateError),
\* bal is the balance after the call.
AccountBalance_new == [available |-> 0, held |-> 0]

\* update without the check that the total is representable.
update_unchecked(bal, new_available, new_held) ==
    [ok |-> TRUE, bal |-> [available |-> new_available, held |-> new_held]]

update(bal, new_available, new_held) ==
    IF checked_add(new_available, new_held) = None
    THEN [ok |-> FALSE, bal |-> bal]
    ELSE [ok |-> TRUE, bal |-> [available |-> new_available, held |-> new_held]]

\* inc_available that credits the held amount instead of the available one.
inc_available_to_held(bal, amount) ==
    LET new_held == checked_add(bal.held, amount)
    IN  IF new_held = None
        THEN [ok |-> FALSE, bal |-> bal]
        ELSE update(bal, bal.available, new_held)

\* inc_available that does not check the total.
inc_available_no_total(bal, amount) ==
    LET new_available == checked_add(bal.available, amount)
    IN  IF new_available = None
        THEN [ok |-> FALSE, bal |-> bal]
        ELSE [ok |-> TRUE, bal |-> [available |-> new_available, held |-> bal.held]]

inc_available(bal, amount) ==
    LET new_available == checked_add(bal.available, amount)
    IN  IF new_available = None
        THEN [ok |-> FALSE, bal |-> bal]
        ELSE update(bal, new_available, bal.held)

\* dec_available that succeeds without taking the amount.
dec_available_no_debit(bal, amount) ==
    LET new_available == checked_sub(bal.available, amount)
    IN  IF new_available = None
        THEN [ok |-> FALSE, bal |-> bal]
        ELSE update(bal, bal.available, bal.held)

dec_available(bal, amount) ==
    LET new_available == checked_sub(bal.available, amount)
    IN  IF new_available = None
        THEN [ok |-> FALSE, bal |-> bal]
        ELSE update(bal, new_available, bal.held)

\* move_available_to_held that adds to held without taking from available.
move_available_to_held_no_debit(bal, amount) ==
    LET new_held == checked_add(bal.held, amount)
    IN  IF new_held = None
        THEN [ok |-> FALSE, bal |-> bal]
        ELSE update(bal, bal.available, new_held)

\* move_available_to_held that, when available does not cover the amount,
\* fails after it has added what fits to held.
move_available_to_held_partial(bal, amount) ==
    LET new_available == checked_sub(bal.available, amount)
        new_held == checked_add(bal.held, amount)
    IN  IF new_available = None
        THEN [ok |-> FALSE,
              bal |-> [bal EXCEPT !.held = IF new_held = None THEN bal.held ELSE new_held]]
        ELSE IF new_held = None
             THEN [ok |-> FALSE, bal |-> bal]
             ELSE update(bal, new_available, new_held)

move_available_to_held(bal, amount) ==
    LET new_available == checked_sub(bal.available, amount)
        new_held == checked_add(bal.held, amount)
    IN  IF new_available = None
        THEN [ok |-> FALSE, bal |-> bal]
        ELSE IF new_held = None
             THEN [ok |-> FALSE, bal |-> bal]
             ELSE update(bal, new_available, new_held)

\* move_held_to_available that adds to available without taking from held.
move_held_to_available_no_release(bal, amount) ==
    LET new_available == checked_add(bal.available, amount)
    IN  IF new_available = None
        THEN [ok |-> FALSE, bal |-> bal]
        ELSE update(bal, new_available, bal.held)

move_held_to_available(bal, amount) ==
    LET new_available == checked_add(bal.available, amount)
        new_held == checked_sub(bal.held, amount)
    IN  IF new_available = None
        THEN [ok |-> FALSE, bal |-> bal]
        ELSE IF new_held = None
             THEN [ok |-> FALSE, bal |-> bal]
             ELSE update(bal, new_available, new_held)

\* AccountBalance::total panics when the sum is not representable.
total_panics(bal) == checked_add(bal.available, bal.held) = None

(* ------------------- account_service.rs: data types ------------------- *)

Policies == {"Deny", "IfMoreAvailableThanDisputed"}

to_deposit_tx(meta) ==
    [kind |-> "Deposit", id |-> meta.id, client |-> meta.client, amount |-> meta.amount]

to_withdrawal_tx(meta) ==
    [kind |-> "Withdrawal", id |-> meta.id, client |-> meta.client, amount |-> meta.amount]

valid(tx) == [tx |-> tx, state |-> "Valid"]

rejected(tx) == [tx |-> tx, state |-> "Rejected"]

\* MemAccount::new that creates the account locked.
MemAccount_new_locked(id) == [id |-> id, locked |-> TRUE, balance |-> AccountBalance_new]

MemAccount_new(id) == [id |-> id, locked |-> FALSE, balance |-> AccountBalance_new]

\* Results of submit: Ok(()) or one of the error variants.
Ok == [tag |-> "Ok"]

Err(name) == [tag |-> name]

NotFound(tx) == [tag |-> "NotFound", tx |-> tx]

InvalidClaimant(owner, claimant) ==
    [tag |-> "InvalidClaimant", owner |-> owner, claimant |-> claimant]

AlreadyRejected(tx) == [tag |-> "AlreadyRejected", tx |-> tx]

NonDisputed(tx) == [tag |-> "NonDisputed", tx |-> tx]

(* ------------------------------- state -------------------------------- *)

VARIABLES withdrawal_dispute_policy, transactions, accounts, last, cli

vars == <<withdrawal_dispute_policy, transactions, accounts, last, cli>>

\* HashMap::new()
EmptyMap == [k \in {} |-> 0]

\* last observes one call of submit: the command passed, the value returned
\* and whether the call changed one of the two maps.  It is NoCommand until
\* the observed call, and a behaviour ends with the observed call, so every
\* call from every reachable pair of maps is observed once, as the final step.
NoCommand == [cmd |-> [kind |-> "None"], res |-> [tag |-> "None"], changed |-> FALSE]

\* cli is the state of one run of the command line program (cli.rs, with_io):
\* the rows of the input, the sort flag, the position of the loop, the
\* commands passed to submit so far, the errors printed, the lines written to
\* the output and the value returned.  It is NoCli when the engine is used
\* without the program.
NoCli ==
    [rows |-> <<>>, sort |-> FALSE, pc |-> "none", row |-> 1, submitted |-> <<>>,
     err_output |-> <<>>, output |-> <<>>, res |-> [tag |-> "None"]]

Init ==
    /\ withdrawal_dispute_policy \in Policies
    /\ transactions = EmptyMap
    /\ accounts = EmptyMap
    /\ last = NoCommand
    /\ cli = NoCli

(* -------------------- account_service.rs: helpers --------------------- *)

\* upsert_account that resets the lock flag of an account that exists.
upsert_account_unlock(accs, client) ==
    IF client \in DOMAIN accs
    THEN [accs EXCEPT ![client].locked = FALSE]
    ELSE (client :> MemAccount_new(client)) @@ accs

upsert_account(accs, client) ==
    IF client \in DOMAIN accs THEN accs ELSE (client :> MemAccount_new(client)) @@ accs

\* upsert_tx that calls the handler again for an identical transaction.
upsert_tx_rerun(txs, tx, handler) ==
    IF tx.id \in DOMAIN txs /\ txs[tx.id].tx # tx
    THEN [transactions |-> txs, res |-> Err("TransactionIdConflict"), called |-> FALSE]
    ELSE IF tx.id \in DOMAIN txs
         THEN [transactions |-> txs, res |-> handler.res, called |-> TRUE]
         ELSE IF handler.res = Ok
              THEN [transactions |-> (tx.id :> valid(tx)) @@ txs, res |-> Ok,
                    called |-> TRUE]
              ELSE [transactions |-> (tx.id :> rejected(tx)) @@ txs, res |-> handler.res,
                    called |-> TRUE]

\* upsert_tx that compares only the kind and the client of the two transactions.
upsert_tx_loose(txs, tx, handler) ==
    IF tx.id \in DOMAIN txs
    THEN IF txs[tx.id].tx.kind # tx.kind \/ txs[tx.id].tx.client # tx.client
         THEN [transactions |-> txs, res |-> Err("TransactionIdConflict"), called |-> FALSE]
         ELSE [transactions |-> txs, res |-> Ok, called |-> FALSE]
    ELSE IF handler.res = Ok
         THEN [transactions |-> (tx.id :> valid(tx)) @@ txs, res |-> Ok, called |-> TRUE]
         ELSE [transactions |-> (tx.id :> rejected(tx)) @@ txs, res |-> handler.res,
               called |-> TRUE]

\* upsert_tx that records a new transaction as Valid whatever the closure
\* returns.
upsert_tx_always_valid(txs, tx, handler) ==
    IF tx.id \in DOMAIN txs
    THEN IF txs[tx.id].tx # tx
         THEN [transactions |-> txs, res |-> Err("TransactionIdConflict"), called |-> FALSE]
         ELSE [transactions |-> txs, res |-> Ok, called |-> FALSE]
    ELSE [transactions |-> (tx.id :> valid(tx)) @@ txs, res |-> handler.res,
          called |-> TRUE]

\* upsert_tx that stores the new transaction over a different one recorded
\* under the id.
upsert_tx_overwrite(txs, tx, handler) ==
    IF tx.id \in DOMAIN txs
    THEN IF txs[tx.id].tx # tx
         THEN [transactions |-> [txs EXCEPT ![tx.id].tx = tx],
               res |-> Err("TransactionIdConflict"), called |-> FALSE]
         ELSE [transactions |-> txs, res |-> Ok, called |-> FALSE]
    ELSE IF handler.res = Ok
         THEN [transactions |-> (tx.id :> valid(tx)) @@ txs, res |-> Ok, called |-> TRUE]
         ELSE [transactions |-> (tx.id :> rejected(tx)) @@ txs, res |-> handler.res,
               called |-> TRUE]

\* handler is the outcome the closure has when it is called:
\* [res |-> its result, account |-> the account after it ran].
\* called tells whether upsert_tx ran the closure.
upsert_tx(txs, tx, handler) ==
    IF tx.id \in DOMAIN txs
    THEN IF txs[tx.id].tx # tx
         THEN [transactions |-> txs, res |-> Err("TransactionIdConflict"), called |-> FALSE]
         ELSE [transactions |-> txs, res |-> Ok, called |-> FALSE]
    ELSE IF handler.res = Ok
         THEN [transactions |-> (tx.id :> valid(tx)) @@ txs, res |-> Ok, called |-> TRUE]
         ELSE [transactions |-> (tx.id :> rejected(tx)) @@ txs, res |-> handler.res,
               called |-> TRUE]

(* -------------------- account_service.rs: handlers -------------------- *)

\* Each handler maps the two maps and a command to the two maps after the
\* call and the value the call returns.
Outcome(accs, txs, res) == [accounts |-> accs, transactions |-> txs, res |-> res]

\* deposit_handler without the check of the lock.
deposit_handler_no_lock(account, amount) ==
    LET r == inc_available(account.balance, amount)
    IN  IF r.ok
        THEN [res |-> Ok, account |-> [account EXCEPT !.balance = r.bal]]
        ELSE [res |-> Err("BalanceUpdateError"), account |-> account]

\* The closure passed to upsert_tx by submit_deposit.
deposit_handler(account, amount) ==
    IF account.locked
    THEN [res |-> Err("Locked"), account |-> account]
    ELSE LET r == inc_available(account.balance, amount)
         IN  IF r.ok
             THEN [res |-> Ok, account |-> [account EXCEPT !.balance = r.bal]]
             ELSE [res |-> Err("BalanceUpdateError"), account |-> account]

submit_deposit(accs, txs, cmd) ==
    LET tx == to_deposit_tx(cmd)
        accs1 == upsert_account(accs, cmd.client)
        handler == deposit_handler(accs1[cmd.client], cmd.amount)
        r == upsert_tx(txs, tx, handler)
    IN  Outcome(IF r.called THEN [accs1 EXCEPT ![cmd.client] = handler.account] ELSE accs1,
                r.transactions, r.res)

\* withdrawal_handler that pays out what is available when the amount is not
\* covered.
withdrawal_handler_overdraw(account, amount) ==
    IF account.locked
    THEN [res |-> Err("Locked"), account |-> account]
    ELSE IF account.balance.available < amount
         THEN [res |-> Ok, account |-> [account EXCEPT !.balance.available = 0]]
         ELSE LET r == dec_available(account.balance, amount)
              IN  IF r.ok
                  THEN [res |-> Ok, account |-> [account EXCEPT !.balance = r.bal]]
                  ELSE [res |-> Err("BalanceUpdateError"), account |-> account]

\* withdrawal_handler that checks the funds before the lock.
withdrawal_handler_funds_first(account, amount) ==
    IF account.balance.available < amount
    THEN [res |-> Err("InsufficientAssets"), account |-> account]
    ELSE IF account.locked
         THEN [res |-> Err("Locked"), account |-> account]
         ELSE LET r == dec_available(account.balance, amount)
              IN  IF r.ok
                  THEN [res |-> Ok, account |-> [account EXCEPT !.balance = r.bal]]
                  ELSE [res |-> Err("BalanceUpdateError"), account |-> account]

\* withdrawal_handler without the check of the funds.
withdrawal_handler_no_funds_check(account, amount) ==
    IF account.locked
    THEN [res |-> Err("Locked"), account |-> account]
    ELSE LET r == dec_available(account.balance, amount)
         IN  IF r.ok
             THEN [res |-> Ok, account |-> [account EXCEPT !.balance = r.bal]]
             ELSE [res |-> Err("BalanceUpdateError"), account |-> account]

\* The closure passed to upsert_tx by submit_withdrawal.
withdrawal_handler(account, amount) ==
    IF account.locked
    THEN [res |-> Err("Locked"), account |-> account]
    ELSE IF account.balance.available < amount
         THEN [res |-> Err("InsufficientAssets"), account |-> account]
         ELSE LET r == dec_available(account.balance, amount)
              IN  IF r.ok
                  THEN [res |-> Ok, account |-> [account EXCEPT !.balance = r.bal]]
                  ELSE [res |-> Err("BalanceUpdateError"), account |-> account]

submit_withdrawal(accs, txs, cmd) ==
    LET tx == to_withdrawal_tx(cmd)
        accs1 == upsert_account(accs, cmd.client)
        handler == withdrawal_handler(accs1[cmd.client], cmd.amount)
        r == upsert_tx(txs, tx, handler)
    IN  Outcome(IF r.called THEN [accs1 EXCEPT ![cmd.client] = handler.account] ELSE accs1,
                r.transactions, r.res)

\* submit_dispute that disputes a Rejected record as if it were Valid.
submit_dispute_of_rejected(policy, accs, txs, cmd) ==
    IF cmd.tx \notin DOMAIN txs
    THEN Outcome(accs, txs, NotFound(cmd.tx))
    ELSE
    LET tx == txs[cmd.tx]
        accs1 == upsert_account(accs, tx.tx.client)
        account == accs1[tx.tx.client]
        disputed_amount == tx.tx.amount
        has_more_available_than_disputed == account.balance.available >= disputed_amount
        r == move_available_to_held(account.balance, disputed_amount)
    IN  IF cmd.client # account.id
        THEN Outcome(accs1, txs, InvalidClaimant(account.id, cmd.client))
        ELSE IF account.locked
        THEN Outcome(accs1, txs, Err("Locked"))
        ELSE IF tx.state = "Disputed"
        THEN Outcome(accs1, txs, Ok)
        ELSE IF tx.tx.kind = "Deposit" /\ ~has_more_available_than_disputed
        THEN Outcome(accs1, txs, Err("InsufficientAssets"))
        ELSE IF tx.tx.kind = "Withdrawal" /\ policy = "Deny"
        THEN Outcome(accs1, txs, Err("WithdrawalDisputeDenied"))
        ELSE IF tx.tx.kind = "Withdrawal" /\ ~has_more_available_than_disputed
        THEN Outcome(accs1, txs, Err("InsufficientAssets"))
        ELSE IF ~r.ok
        THEN Outcome(accs1, txs, Err("BalanceUpdateError"))
        ELSE Outcome([accs1 EXCEPT ![account.id].balance = r.bal],
                     [txs EXCEPT ![cmd.tx].state = "Disputed"], Ok)

\* submit_dispute that marks the record Disputed before it checks that the
\* dispute is valid.
submit_dispute_early_mark(policy, accs, txs, cmd) ==
    IF cmd.tx \notin DOMAIN txs
    THEN Outcome(accs, txs, NotFound(cmd.tx))
    ELSE
    LET tx == txs[cmd.tx]
        accs1 == upsert_account(accs, tx.tx.client)
        account == accs1[tx.tx.client]
        disputed_amount == tx.tx.amount
        has_more_available_than_disputed == account.balance.available >= disputed_amount
        r == move_available_to_held(account.balance, disputed_amount)
        marked == [txs EXCEPT ![cmd.tx].state = "Disputed"]
    IN  IF cmd.client # account.id
        THEN Outcome(accs1, txs, InvalidClaimant(account.id, cmd.client))
        ELSE IF account.locked
        THEN Outcome(accs1, txs, Err("Locked"))
        ELSE IF tx.state = "Rejected"
        THEN Outcome(accs1, txs, AlreadyRejected(cmd.tx))
        ELSE IF tx.state = "Disputed"
        THEN Outcome(accs1, txs, Ok)
        ELSE IF tx.tx.kind = "Deposit" /\ ~has_more_available_than_disputed
        THEN Outcome(accs1, marked, Err("InsufficientAssets"))
        ELSE IF tx.tx.kind = "Withdrawal" /\ policy = "Deny"
        THEN Outcome(accs1, marked, Err("WithdrawalDisputeDenied"))
        ELSE IF tx.tx.kind = "Withdrawal" /\ ~has_more_available_than_disputed
        THEN Outcome(accs1, marked, Err("InsufficientAssets"))
        ELSE IF ~r.ok
        THEN Outcome(accs1, marked, Err("BalanceUpdateError"))
        ELSE Outcome([accs1 EXCEPT ![account.id].balance = r.bal], marked, Ok)

\* submit_dispute that checks the lock before the claimant.
submit_dispute_lock_first(policy, accs, txs, cmd) ==
    IF cmd.tx \notin DOMAIN txs
    THEN Outcome(accs, txs, NotFound(cmd.tx))
    ELSE
    LET tx == txs[cmd.tx]
        accs1 == upsert_account(accs, tx.tx.client)
        account == accs1[tx.tx.client]
        disputed_amount == tx.tx.amount
        has_more_available_than_disputed == account.balance.available >= disputed_amount
        r == move_available_to_held(account.balance, disputed_amount)
    IN  IF account.locked
        THEN Outcome(accs1, txs, Err("Locked"))
        ELSE IF cmd.client # account.id
        THEN Outcome(accs1, txs, InvalidClaimant(account.id, cmd.client))
        ELSE IF tx.state = "Rejected"
        THEN Outcome(accs1, txs, AlreadyRejected(cmd.tx))
        ELSE IF tx.state = "Disputed"
        THEN Outcome(accs1, txs, Ok)
        ELSE IF tx.tx.kind = "Deposit" /\ ~has_more_available_than_disputed
        THEN Outcome(accs1, txs, Err("InsufficientAssets"))
        ELSE IF tx.tx.kind = "Withdrawal" /\ policy = "Deny"
        THEN Outcome(accs1, txs, Err("WithdrawalDisputeDenied"))
        ELSE IF tx.tx.kind = "Withdrawal" /\ ~has_more_available_than_disputed
        THEN Outcome(accs1, txs, Err("InsufficientAssets"))
        ELSE IF ~r.ok
        THEN Outcome(accs1, txs, Err("BalanceUpdateError"))
        ELSE Outcome([accs1 EXCEPT ![account.id].balance = r.bal],
                     [txs EXCEPT ![cmd.tx].state = "Disputed"], Ok)

\* submit_dispute that treats a Withdrawal like a Deposit, whatever the policy.
submit_dispute_no_policy(policy, accs, txs, cmd) ==
    IF cmd.tx \notin DOMAIN txs
    THEN Outcome(accs, txs, NotFound(cmd.tx))
    ELSE
    LET tx == txs[cmd.tx]
        accs1 == upsert_account(accs, tx.tx.client)
        account == accs1[tx.tx.client]
        disputed_amount == tx.tx.amount
        has_more_available_than_disputed == account.balance.available >= disputed_amount
        r == move_available_to_held(account.balance, disputed_amount)
    IN  IF cmd.client # account.id
        THEN Outcome(accs1, txs, InvalidClaimant(account.id, cmd.client))
        ELSE IF account.locked
        THEN Outcome(accs1, txs, Err("Locked"))
        ELSE IF tx.state = "Rejected"
        THEN Outcome(accs1, txs, AlreadyRejected(cmd.tx))
        ELSE IF tx.state = "Disputed"
        THEN Outcome(accs1, txs, Ok)
        ELSE IF ~has_more_available_than_disputed
        THEN Outcome(accs1, txs, Err("InsufficientAssets"))
        ELSE IF ~r.ok
        THEN Outcome(accs1, txs, Err("BalanceUpdateError"))
        ELSE Outcome([accs1 EXCEPT ![account.id].balance = r.bal],
                     [txs EXCEPT ![cmd.tx].state = "Disputed"], Ok)

\* submit_dispute that holds the amount again when the record is Disputed.
submit_dispute_again(policy, accs, txs, cmd) ==
    IF cmd.tx \notin DOMAIN txs
    THEN Outcome(accs, txs, NotFound(cmd.tx))
    ELSE
    LET tx == txs[cmd.tx]
        accs1 == upsert_account(accs, tx.tx.client)
        account == accs1[tx.tx.client]
        disputed_amount == tx.tx.amount
        has_more_available_than_disputed == account.balance.available >= disputed_amount
        r == move_available_to_held(account.balance, disputed_amount)
    IN  IF cmd.client # account.id
        THEN Outcome(accs1, txs, InvalidClaimant(account.id, cmd.client))
        ELSE IF account.locked
        THEN Outcome(accs1, txs, Err("Locked"))
        ELSE IF tx.state = "Rejected"
        THEN Outcome(accs1, txs, AlreadyRejected(cmd.tx))
        ELSE IF tx.tx.kind = "Deposit" /\ ~has_more_available_than_disputed
        THEN Outcome(accs1, txs, Err("InsufficientAssets"))
        ELSE IF tx.tx.kind = "Withdrawal" /\ policy = "Deny"
        THEN Outcome(accs1, txs, Err("WithdrawalDisputeDenied"))
        ELSE IF tx.tx.kind = "Withdrawal" /\ ~has_more_available_than_disputed
        THEN Outcome(accs1, txs, Err("InsufficientAssets"))
        ELSE IF ~r.ok
        THEN Outcome(accs1, txs, Err("BalanceUpdateError"))
        ELSE Outcome([accs1 EXCEPT ![account.id].balance = r.bal],
                     [txs EXCEPT ![cmd.tx].state = "Disputed"], Ok)

submit_dispute(policy, accs, txs, cmd) ==
    IF cmd.tx \notin DOMAIN txs
    THEN Outcome(accs, txs, NotFound(cmd.tx))
    ELSE
    LET tx == txs[cmd.tx]
        accs1 == upsert_account(accs, tx.tx.client)
        account == accs1[tx.tx.client]
        disputed_amount == tx.tx.amount
        has_more_available_than_disputed == account.balance.available >= disputed_amount
        r == move_available_to_held(account.balance, disputed_amount)
    IN  IF cmd.client # account.id
        THEN Outcome(accs1, txs, InvalidClaimant(account.id, cmd.client))
        ELSE IF account.locked
        THEN Outcome(accs1, txs, Err("Locked"))
        ELSE IF tx.state = "Rejected"
        THEN Outcome(accs1, txs, AlreadyRejected(cmd.tx))
        ELSE IF tx.state = "Disputed"
        THEN Outcome(accs1, txs, Ok)
        ELSE IF tx.tx.kind = "Deposit" /\ ~has_more_available_than_disputed
        THEN Outcome(accs1, txs, Err("InsufficientAssets"))
        ELSE IF tx.tx.kind = "Withdrawal" /\ policy = "Deny"
        THEN Outcome(accs1, txs, Err("WithdrawalDisputeDenied"))
        ELSE IF tx.tx.kind = "Withdrawal" /\ ~has_more_available_than_disputed
        THEN Outcome(accs1, txs, Err("InsufficientAssets"))
        ELSE IF ~r.ok
        THEN Outcome(accs1, txs, Err("BalanceUpdateError"))
        ELSE Outcome([accs1 EXCEPT ![account.id].balance = r.bal],
                     [txs EXCEPT ![cmd.tx].state = "Disputed"], Ok)

\* submit_resolve that releases the amount again when the record is Valid.
submit_resolve_release_valid(accs, txs, cmd) ==
    IF cmd.tx \notin DOMAIN txs
    THEN Outcome(accs, txs, NotFound(cmd.tx))
    ELSE
    LET tx == txs[cmd.tx]
        accs1 == upsert_account(accs, tx.tx.client)
        account == accs1[tx.tx.client]
        disputed_amount == tx.tx.amount
        r == move_held_to_available(account.balance, disputed_amount)
    IN  IF cmd.client # account.id
        THEN Outcome(accs1, txs, InvalidClaimant(account.id, cmd.client))
        ELSE IF account.locked
        THEN Outcome(accs1, txs, Err("Locked"))
        ELSE IF tx.state = "Rejected"
        THEN Outcome(accs1, txs, AlreadyRejected(cmd.tx))
        ELSE IF ~r.ok
        THEN Outcome(accs1, txs, Err("BalanceUpdateError"))
        ELSE Outcome([accs1 EXCEPT ![account.id].balance = r.bal],
                     [txs EXCEPT ![cmd.tx].state = "Valid"], Ok)

\* submit_resolve without the check of the lock.
submit_resolve_no_lock(accs, txs, cmd) ==
    IF cmd.tx \notin DOMAIN txs
    THEN Outcome(accs, txs, NotFound(cmd.tx))
    ELSE
    LET tx == txs[cmd.tx]
        accs1 == upsert_account(accs, tx.tx.client)
        account == accs1[tx.tx.client]
        disputed_amount == tx.tx.amount
        r == move_held_to_available(account.balance, disputed_amount)
    IN  IF cmd.client # account.id
        THEN Outcome(accs1, txs, InvalidClaimant(account.id, cmd.client))
        ELSE IF tx.state = "Rejected"
        THEN Outcome(accs1, txs, AlreadyRejected(cmd.tx))
        ELSE IF tx.state = "Valid"
        THEN Outcome(accs1, txs, Ok)
        ELSE IF ~r.ok
        THEN Outcome(accs1, txs, Err("BalanceUpdateError"))
        ELSE Outcome([accs1 EXCEPT ![account.id].balance = r.bal],
                     [txs EXCEPT ![cmd.tx].state = "Valid"], Ok)

submit_resolve(accs, txs, cmd) ==
    IF cmd.tx \notin DOMAIN txs
    THEN Outcome(accs, txs, NotFound(cmd.tx))
    ELSE
    LET tx == txs[cmd.tx]
        accs1 == upsert_account(accs, tx.tx.client)
        account == accs1[tx.tx.client]
        disputed_amount == tx.tx.amount
        r == move_held_to_available(account.balance, disputed_amount)
    IN  IF cmd.client # account.id
        THEN Outcome(accs1, txs, InvalidClaimant(account.id, cmd.client))
        ELSE IF account.locked
        THEN Outcome(accs1, txs, Err("Locked"))
        ELSE IF tx.state = "Rejected"
        THEN Outcome(accs1, txs, AlreadyRejected(cmd.tx))
        ELSE IF tx.state = "Valid"
        THEN Outcome(accs1, txs, Ok)
        ELSE IF ~r.ok
        THEN Outcome(accs1, txs, Err("BalanceUpdateError"))
        ELSE Outcome([accs1 EXCEPT ![account.id].balance = r.bal],
                     [txs EXCEPT ![cmd.tx].state = "Valid"], Ok)

\* chargeback_amounts that refunds a disputed Deposit as if it were a
\* Withdrawal.
chargeback_amounts_refund_deposit(tx, bal) ==
    LET disputed_amount == tx.amount
        new_held == checked_sub(bal.held, disputed_amount)
        moved == checked_add(bal.available, disputed_amount)
        refunded == IF moved = None THEN None ELSE checked_add(moved, disputed_amount)
        failed == [ok |-> FALSE, new_available |-> None, new_held |-> None]
    IN  IF new_held = None \/ refunded = None THEN failed
        ELSE [ok |-> TRUE, new_available |-> refunded, new_held |-> new_held]

\* chargeback_amounts that adds the disputed amount to available only once.
chargeback_amounts_single_add(tx, bal) ==
    LET disputed_amount == tx.amount
        new_held == checked_sub(bal.held, disputed_amount)
        moved == checked_add(bal.available, disputed_amount)
        failed == [ok |-> FALSE, new_available |-> None, new_held |-> None]
    IN  IF tx.kind = "Deposit"
        THEN IF new_held = None THEN failed
             ELSE [ok |-> TRUE, new_available |-> bal.available, new_held |-> new_held]
        ELSE IF new_held = None \/ moved = None THEN failed
             ELSE [ok |-> TRUE, new_available |-> moved, new_held |-> new_held]

\* The (new_available, new_held) pair computed by submit_chargeback for a
\* disputed transaction; ok = FALSE when one of the checked operations fails.
\* chargeback_amounts that leaves the disputed amount held.
chargeback_amounts_keep_held(tx, bal) ==
    [ok |-> TRUE, new_available |-> bal.available, new_held |-> bal.held]

chargeback_amounts(tx, bal) ==
    LET disputed_amount == tx.amount
        new_held == checked_sub(bal.held, disputed_amount)
        moved == checked_add(bal.available, disputed_amount)
        refunded == IF moved = None THEN None ELSE checked_add(moved, disputed_amount)
        failed == [ok |-> FALSE, new_available |-> None, new_held |-> None]
    IN  IF tx.kind = "Deposit"
        THEN IF new_held = None THEN failed
             ELSE [ok |-> TRUE, new_available |-> bal.available, new_held |-> new_held]
        ELSE IF new_held = None \/ refunded = None THEN failed
             ELSE [ok |-> TRUE, new_available |-> refunded, new_held |-> new_held]

\* submit_chargeback that creates an account for the claimant when the
\* transaction has no record.
submit_chargeback_upsert_claimant(accs, txs, cmd) ==
    IF cmd.tx \notin DOMAIN txs
    THEN Outcome(upsert_account(accs, cmd.client), txs, NotFound(cmd.tx))
    ELSE
    LET tx == txs[cmd.tx]
        accs1 == upsert_account(accs, tx.tx.client)
        account == accs1[tx.tx.client]
        new == chargeback_amounts(tx.tx, account.balance)
        r == update(account.balance, new.new_available, new.new_held)
    IN  IF cmd.client # account.id
        THEN Outcome(accs1, txs, InvalidClaimant(account.id, cmd.client))
        ELSE IF account.locked
        THEN Outcome(accs1, txs, Err("Locked"))
        ELSE IF tx.state = "Rejected"
        THEN Outcome(accs1, txs, Ok)
        ELSE IF tx.state = "Valid"
        THEN Outcome(accs1, txs, NonDisputed(cmd.tx))
        ELSE IF ~new.ok
        THEN Outcome(accs1, txs, Err("BalanceUpdateError"))
        ELSE IF ~r.ok
        THEN Outcome(accs1, txs, Err("BalanceUpdateError"))
        ELSE Outcome([accs1 EXCEPT ![account.id].balance = r.bal,
                                   ![account.id].locked = TRUE],
                     [txs EXCEPT ![cmd.tx].state = "Rejected"], Ok)

\* submit_chargeback that accepts a Valid record as a no-op.
submit_chargeback_valid_noop(accs, txs, cmd) ==
    IF cmd.tx \notin DOMAIN txs
    THEN Outcome(accs, txs, NotFound(cmd.tx))
    ELSE
    LET tx == txs[cmd.tx]
        accs1 == upsert_account(accs, tx.tx.client)
        account == accs1[tx.tx.client]
        new == chargeback_amounts(tx.tx, account.balance)
        r == update(account.balance, new.new_available, new.new_held)
    IN  IF cmd.client # account.id
        THEN Outcome(accs1, txs, InvalidClaimant(account.id, cmd.client))
        ELSE IF account.locked
        THEN Outcome(accs1, txs, Err("Locked"))
        ELSE IF tx.state = "Rejected"
        THEN Outcome(accs1, txs, Ok)
        ELSE IF tx.state = "Valid"
        THEN Outcome(accs1, txs, Ok)
        ELSE IF ~new.ok
        THEN Outcome(accs1, txs, Err("BalanceUpdateError"))
        ELSE IF ~r.ok
        THEN Outcome(accs1, txs, Err("BalanceUpdateError"))
        ELSE Outcome([accs1 EXCEPT ![account.id].balance = r.bal,
                                   ![account.id].locked = TRUE],
                     [txs EXCEPT ![cmd.tx].state = "Rejected"], Ok)

\* submit_chargeback that charges back a Valid transaction as if it were
\* Disputed.
submit_chargeback_valid(accs, txs, cmd) ==
    IF cmd.tx \notin DOMAIN txs
    THEN Outcome(accs, txs, NotFound(cmd.tx))
    ELSE
    LET tx == txs[cmd.tx]
        accs1 == upsert_account(accs, tx.tx.client)
        account == accs1[tx.tx.client]
        new == chargeback_amounts(tx.tx, account.balance)
        r == update(account.balance, new.new_available, new.new_held)
    IN  IF cmd.client # account.id
        THEN Outcome(accs1, txs, InvalidClaimant(account.id, cmd.client))
        ELSE IF account.locked
        THEN Outcome(accs1, txs, Err("Locked"))
        ELSE IF tx.state = "Rejected"
        THEN Outcome(accs1, txs, Ok)
        ELSE IF ~new.ok
        THEN Outcome(accs1, txs, Err("BalanceUpdateError"))
        ELSE IF ~r.ok
        THEN Outcome(accs1, txs, Err("BalanceUpdateError"))
        ELSE Outcome([accs1 EXCEPT ![account.id].balance = r.bal,
                                   ![account.id].locked = TRUE],
                     [txs EXCEPT ![cmd.tx].state = "Rejected"], Ok)

\* submit_chargeback without the check of the lock.
submit_chargeback_on_locked(accs, txs, cmd) ==
    IF cmd.tx \notin DOMAIN txs
    THEN Outcome(accs, txs, NotFound(cmd.tx))
    ELSE
    LET tx == txs[cmd.tx]
        accs1 == upsert_account(accs, tx.tx.client)
        account == accs1[tx.tx.client]
        new == chargeback_amounts(tx.tx, account.balance)
        r == update(account.balance, new.new_available, new.new_held)
    IN  IF cmd.client # account.id
        THEN Outcome(accs1, txs, InvalidClaimant(account.id, cmd.client))
        ELSE IF tx.state = "Rejected"
        THEN Outcome(accs1, txs, Ok)
        ELSE IF tx.state = "Valid"
        THEN Outcome(accs1, txs, NonDisputed(cmd.tx))
        ELSE IF ~new.ok
        THEN Outcome(accs1, txs, Err("BalanceUpdateError"))
        ELSE IF ~r.ok
        THEN Outcome(accs1, txs, Err("BalanceUpdateError"))
        ELSE Outcome([accs1 EXCEPT ![account.id].balance = r.bal,
                                   ![account.id].locked = TRUE],
                     [txs EXCEPT ![cmd.tx].state = "Rejected"], Ok)

submit_chargeback(accs, txs, cmd) ==
    IF cmd.tx \notin DOMAIN txs
    THEN Outcome(accs, txs, NotFound(cmd.tx))
    ELSE
    LET tx == txs[cmd.tx]
        accs1 == upsert_account(accs, tx.tx.client)
        account == accs1[tx.tx.client]
        new == chargeback_amounts(tx.tx, account.balance)
        r == update(account.balance, new.new_available, new.new_held)
    IN  IF cmd.client # account.id
        THEN Outcome(accs1, txs, InvalidClaimant(account.id, cmd.client))
        ELSE IF account.locked
        THEN Outcome(accs1, txs, Err("Locked"))
        ELSE IF tx.state = "Rejected"
        THEN Outcome(accs1, txs, Ok)
        ELSE IF tx.state = "Valid"
        THEN Outcome(accs1, txs, NonDisputed(cmd.tx))
        ELSE IF ~new.ok
        THEN Outcome(accs1, txs, Err("BalanceUpdateError"))
        ELSE IF ~r.ok
        THEN Outcome(accs1, txs, Err("BalanceUpdateError"))
        ELSE Outcome([accs1 EXCEPT ![account.id].balance = r.bal,
                                   ![account.id].locked = TRUE],
                     [txs EXCEPT ![cmd.tx].state = "Rejected"], Ok)

\* MemAccountService::submit: dispatch on the command kind.
submit(policy, accs, txs, cmd) ==
    CASE cmd.kind = "Deposit" -> submit_deposit(accs, txs, cmd)
      [] cmd.kind = "Withdrawal" -> submit_withdrawal(accs, txs, cmd)
      [] cmd.kind = "Dispute" -> submit_dispute(policy, accs, txs, cmd)
      [] cmd.kind = "Resolve" -> submit_resolve(accs, txs, cmd)
      [] cmd.kind = "Chargeback" -> submit_chargeback(accs, txs, cmd)

\* get_all_accounts that leaves out the locked accounts.
get_all_accounts_unlocked(accs) ==
    {[client |-> accs[c].id, balance |-> accs[c].balance, locked |-> accs[c].locked] :
        c \in {d \in DOMAIN accs : ~accs[d].locked}}

\* MemAccountService::get_all_accounts, as the set of the items it yields.
get_all_accounts(accs) ==
    {[client |-> accs[c].id, balance |-> accs[c].balance, locked |-> accs[c].locked] :
        c \in DOMAIN accs}

(* ------------------- account/mem.rs: the engine of the CLI ------------ *)

\* TransactionWithState::valid and ::rejected of account/mem.rs.
mem_valid(tx) == [tx |-> tx, state |-> "Valid"]

mem_rejected(tx) == [tx |-> tx, state |-> "Rejected"]

\* MemAccount::new of account/mem.rs.
mem_MemAccount_new(id) == [id |-> id, locked |-> FALSE, balance |-> AccountBalance_new]

\* upsert_account of account/mem.rs: get or create the account of the client.
mem_upsert_account(accs, client) ==
    IF client \in DOMAIN accs THEN accs ELSE (client :> mem_MemAccount_new(client)) @@ accs

\* upsert_tx of account/mem.rs; handler is the outcome the closure has when
\* it is called.
mem_upsert_tx(txs, tx, handler) ==
    IF tx.id \in DOMAIN txs
    THEN IF txs[tx.id].tx # tx
         THEN [transactions |-> txs, res |-> Err("TransactionIdConflict"), called |-> FALSE]
         ELSE [transactions |-> txs, res |-> Ok, called |-> FALSE]
    ELSE IF handler.res = Ok
         THEN [transactions |-> (tx.id :> mem_valid(tx)) @@ txs, res |-> Ok, called |-> TRUE]
         ELSE [transactions |-> (tx.id :> mem_rejected(tx)) @@ txs, res |-> handler.res,
               called |-> TRUE]

\* The closure passed to upsert_tx by submit_deposit of account/mem.rs.
mem_deposit_handler(account, amount) ==
    IF account.locked
    THEN [res |-> Err("Locked"), account |-> account]
    ELSE LET r == inc_available(account.balance, amount)
         IN  IF r.ok
             THEN [res |-> Ok, account |-> [account EXCEPT !.balance = r.bal]]
             ELSE [res |-> Err("BalanceUpdateError"), account |-> account]

mem_submit_deposit(accs, txs, cmd) ==
    LET tx == to_deposit_tx(cmd)
        accs1 == mem_upsert_account(accs, cmd.client)
        handler == mem_deposit_handler(accs1[cmd.client], cmd.amount)
        r == mem_upsert_tx(txs, tx, handler)
    IN  Outcome(IF r.called THEN [accs1 EXCEPT ![cmd.client] = handler.account] ELSE accs1,
                r.transactions, r.res)

\* The closure passed to upsert_tx by submit_withdrawal of account/mem.rs.
mem_withdrawal_handler(account, amount) ==
    IF account.locked
    THEN [res |-> Err("Locked"), account |-> account]
    ELSE IF account.balance.available < amount
         THEN [res |-> Err("InsufficientAssets"), account |-> account]
         ELSE LET r == dec_available(account.balance, amount)
              IN  IF r.ok
                  THEN [res |-> Ok, account |-> [account EXCEPT !.balance = r.bal]]
                  ELSE [res |-> Err("BalanceUpdateError"), account |-> account]

mem_submit_withdrawal(accs, txs, cmd) ==
    LET tx == to_withdrawal_tx(cmd)
        accs1 == mem_upsert_account(accs, cmd.client)
        handler == mem_withdrawal_handler(accs1[cmd.client], cmd.amount)
        r == mem_upsert_tx(txs, tx, handler)
    IN  Outcome(IF r.called THEN [accs1 EXCEPT ![cmd.client] = handler.account] ELSE accs1,
                r.transactions, r.res)

mem_submit_dispute(policy, accs, txs, cmd) ==
    IF cmd.tx \notin DOMAIN txs
    THEN Outcome(accs, txs, NotFound(cmd.tx))
    ELSE
    LET tx == txs[cmd.tx]
        accs1 == mem_upsert_account(accs, tx.tx.client)
        account == accs1[tx.tx.client]
        disputed_amount == tx.tx.amount
        has_more_available_than_disputed == account.balance.available >= disputed_amount
        r == move_available_to_held(account.balance, disputed_amount)
    IN  IF cmd.client # account.id
        THEN Outcome(accs1, txs, InvalidClaimant(account.id, cmd.client))
        ELSE IF account.locked
        THEN Outcome(accs1, txs, Err("Locked"))
        ELSE IF tx.state = "Rejected"
        THEN Outcome(accs1, txs, AlreadyRejected(cmd.tx))
        ELSE IF tx.state = "Disputed"
        THEN Outcome(accs1, txs, Ok)
        ELSE IF tx.tx.kind = "Deposit" /\ ~has_more_available_than_disputed
        THEN Outcome(accs1, txs, Err("InsufficientAssets"))
        ELSE IF tx.tx.kind = "Withdrawal" /\ policy = "Deny"
        THEN Outcome(accs1, txs, Err("WithdrawalDisputeDenied"))
        ELSE IF tx.tx.kind = "Withdrawal" /\ ~has_more_available_than_disputed
        THEN Outcome(accs1, txs, Err("InsufficientAssets"))
        ELSE IF ~r.ok
        THEN Outcome(accs1, txs, Err("BalanceUpdateError"))
        ELSE Outcome([accs1 EXCEPT ![account.id].balance = r.bal],
                     [txs EXCEPT ![cmd.tx].state = "Disputed"], Ok)

mem_submit_resolve(accs, txs, cmd) ==
    IF cmd.tx \notin DOMAIN txs
    THEN Outcome(accs, txs, NotFound(cmd.tx))
    ELSE
    LET tx == txs[cmd.tx]
        accs1 == mem_upsert_account(accs, tx.tx.client)
        account == accs1[tx.tx.client]
        disputed_amount == tx.tx.amount
        r == move_held_to_available(account.balance, disputed_amount)
    IN  IF cmd.client # account.id
        THEN Outcome(accs1, txs, InvalidClaimant(account.id, cmd.client))
        ELSE IF account.locked
        THEN Outcome(accs1, txs, Err("Locked"))
        ELSE IF tx.state = "Rejected"
        THEN Outcome(accs1, txs, AlreadyRejected(cmd.tx))
        ELSE IF tx.state = "Valid"
        THEN Outcome(accs1, txs, Ok)
        ELSE IF ~r.ok
        THEN Outcome(accs1, txs, Err("BalanceUpdateError"))
        ELSE Outcome([accs1 EXCEPT ![account.id].balance = r.bal],
                     [txs EXCEPT ![cmd.tx].state = "Valid"], Ok)

\* The new available and held amounts computed by submit_chargeback of
\* account/mem.rs for a Disputed record.
mem_chargeback_amounts(tx, bal) ==
    LET disputed_amount == tx.amount
        new_held == checked_sub(bal.held, disputed_amount)
        moved == checked_add(bal.available, disputed_amount)
        refunded == IF moved = None THEN None ELSE checked_add(moved, disputed_amount)
        failed == [ok |-> FALSE, new_available |-> None, new_held |-> None]
    IN  IF tx.kind = "Deposit"
        THEN IF new_held = None THEN failed
             ELSE [ok |-> TRUE, new_available |-> bal.available, new_held |-> new_held]
        ELSE IF new_held = None \/ refunded = None THEN failed
             ELSE [ok |-> TRUE, new_available |-> refunded, new_held |-> new_held]

\* submit_chargeback of account/mem.rs: it returns a ResolveError; a Rejected
\* record is refused with AlreadyRejected and a Valid record is a no-op.
mem_submit_chargeback(accs, txs, cmd) ==
    IF cmd.tx \notin DOMAIN txs
    THEN Outcome(accs, txs, NotFound(cmd.tx))
    ELSE
    LET tx == txs[cmd.tx]
        accs1 == mem_upsert_account(accs, tx.tx.client)
        account == accs1[tx.tx.client]
        new == mem_chargeback_amounts(tx.tx, account.balance)
        r == update(account.balance, new.new_available, new.new_held)
    IN  IF cmd.client # account.id
        THEN Outcome(accs1, txs, InvalidClaimant(account.id, cmd.client))
        ELSE IF account.locked
        THEN Outcome(accs1, txs, Err("Locked"))
        ELSE IF tx.state = "Rejected"
        THEN Outcome(accs1, txs, AlreadyRejected(cmd.tx))
        ELSE IF tx.state = "Valid"
        THEN Outcome(accs1, txs, Ok)
        ELSE IF ~new.ok
        THEN Outcome(accs1, txs, Err("BalanceUpdateError"))
        ELSE IF ~r.ok
        THEN Outcome(accs1, txs, Err("BalanceUpdateError"))
        ELSE Outcome([accs1 EXCEPT ![account.id].balance = r.bal,
                                   ![account.id].locked = TRUE],
                     [txs EXCEPT ![cmd.tx].state = "Rejected"], Ok)

\* The conversion `?` applies in submit to the error of a handler: the
\* variant of SubmitError that is #[from] the handler's error type.
SubmitError(variant, out) ==
    IF out.res = Ok
    THEN out
    ELSE Outcome(out.accounts, out.transactions,
                 [tag |-> "SubmitError", variant |-> variant, source |-> out.res])

\* MemAccountService::submit of account/mem.rs: dispatch on the command kind;
\* the ResolveError of submit_chargeback becomes SubmitError::Resolve.
mem_submit(policy, accs, txs, cmd) ==
    CASE cmd.kind = "Deposit" -> SubmitError("Deposit", mem_submit_deposit(accs, txs, cmd))
      [] cmd.kind = "Withdrawal" ->
             SubmitError("Withdrawal", mem_submit_withdrawal(accs, txs, cmd))
      [] cmd.kind = "Dispute" ->
             SubmitError("Dispute", mem_submit_dispute(policy, accs, txs, cmd))
      [] cmd.kind = "Resolve" -> SubmitError("Resolve", mem_submit_resolve(accs, txs, cmd))
      [] cmd.kind = "Chargeback" ->
             SubmitError("Resolve", mem_submit_chargeback(accs, txs, cmd))

\* MemAccountService::get_all_accounts of account/mem.rs, as the set of the
\* items it yields.
mem_get_all_accounts(accs) ==
    {[client |-> accs[c].id, balance |-> accs[c].balance, locked |-> accs[c].locked] :
        c \in DOMAIN accs}

(* ------------------------------ commands ------------------------------ *)

TransactionMeta(kind, id, client, amount) ==
    [kind |-> kind, id |-> id, client |-> client, amount |-> amount]

Claim(kind, client, tx) == [kind |-> kind, client |-> client, tx |-> tx]

DepositCommands ==
    {TransactionMeta("Deposit", i, c, a) : i \in TransactionIds, c \in ClientIds, a \in Amounts}

WithdrawalCommands ==
    {TransactionMeta("Withdrawal", i, c, a) :
        i \in TransactionIds, c \in ClientIds, a \in Amounts}

Commands ==
    DepositCommands \cup WithdrawalCommands
        \cup {Claim(k, c, t) : k \in {"Dispute", "Resolve", "Chargeback"},
                               c \in ClientIds, t \in TransactionIds}

(* ------------------------------ actions ------------------------------- *)

\* One call of submit(cmd): both maps are replaced by the handler's outcome,
\* and the call is observed or not.
Submit(cmd) ==
    /\ \E out \in {submit(withdrawal_dispute_policy, accounts, transactions, cmd)} :
           /\ accounts' = out.accounts
           /\ transactions' = out.transactions
           /\ last' \in {NoCommand,
                         [cmd |-> cmd, res |-> out.res,
                          changed |-> (out.accounts # accounts
                                           \/ out.transactions # transactions)]}
    /\ UNCHANGED <<withdrawal_dispute_policy, cli>>

SubmitDeposit ==
    /\ last = NoCommand
    /\ \E cmd \in DepositCommands : Submit(cmd)

SubmitWithdrawal ==
    /\ last = NoCommand
    /\ \E cmd \in WithdrawalCommands : Submit(cmd)

SubmitDispute ==
    /\ last = NoCommand
    /\ \E c \in ClientIds, t \in TransactionIds : Submit(Claim("Dispute", c, t))

SubmitResolve ==
    /\ last = NoCommand
    /\ \E c \in ClientIds, t \in TransactionIds : Submit(Claim("Resolve", c, t))

SubmitChargeback ==
    /\ last = NoCommand
    /\ \E c \in ClientIds, t \in TransactionIds : Submit(Claim("Chargeback", c, t))

Next ==
    \/ SubmitDeposit
    \/ SubmitWithdrawal
    \/ SubmitDispute
    \/ SubmitResolve
    \/ SubmitChargeback

Spec == Init /\ [][Next]_vars

(* ------------------- the engine without the observer ------------------ *)

\* One call of submit(cmd) that is not observed: both maps are replaced by
\* the handler's outcome.
Apply(cmd) ==
    /\ \E out \in {submit(withdrawal_dispute_policy, accounts, transactions, cmd)} :
           /\ accounts' = out.accounts
           /\ transactions' = out.transactions
    /\ UNCHANGED <<withdrawal_dispute_policy, last, cli>>

ApplyDeposit ==
    /\ last = NoCommand
    /\ \E cmd \in DepositCommands : Apply(cmd)

ApplyWithdrawal ==
    /\ last = NoCommand
    /\ \E cmd \in WithdrawalCommands : Apply(cmd)

ApplyDispute ==
    /\ last = NoCommand
    /\ \E c \in ClientIds, t \in TransactionIds : Apply(Claim("Dispute", c, t))

ApplyResolve ==
    /\ last = NoCommand
    /\ \E c \in ClientIds, t \in TransactionIds : Apply(Claim("Resolve", c, t))

ApplyChargeback ==
    /\ last = NoCommand
    /\ \E c \in ClientIds, t \in TransactionIds : Apply(Claim("Chargeback", c, t))

NextEngine ==
    \/ ApplyDeposit
    \/ ApplyWithdrawal
    \/ ApplyDispute
    \/ ApplyResolve
    \/ ApplyChargeback

\* The reachable pairs of maps of the engine, under either policy.
SpecEngine == Init /\ [][NextEngine]_vars

(* ------------------- commands with a zero amount --------------------- *)

\* Amounts of the commands of SpecZero: a Deposit or Withdrawal of nothing is
\* a valid command.
ZeroAmounts == {0, 4}

DepositCommandsZero ==
    {TransactionMeta("Deposit", i, c, a) :
        i \in TransactionIds, c \in ClientIds, a \in ZeroAmounts}

WithdrawalCommandsZero ==
    {TransactionMeta("Withdrawal", i, c, a) :
        i \in TransactionIds, c \in ClientIds, a \in ZeroAmounts}

SubmitDepositZero ==
    /\ last = NoCommand
    /\ \E cmd \in DepositCommandsZero : Submit(cmd)

SubmitWithdrawalZero ==
    /\ last = NoCommand
    /\ \E cmd \in WithdrawalCommandsZero : Submit(cmd)

NextZero ==
    \/ SubmitDepositZero
    \/ SubmitWithdrawalZero
    \/ SubmitDispute
    \/ SubmitResolve
    \/ SubmitChargeback

SpecZero == Init /\ [][NextZero]_vars

TypeOK ==
    /\ withdrawal_dispute_policy \in Policies
    /\ DOMAIN transactions \subseteq TransactionIds
    /\ DOMAIN accounts \subseteq ClientIds

(* ------------------------------ claims -------------------------------- *)

\* The transaction a Deposit or Withdrawal command describes.
TransactionOf(cmd) ==
    IF cmd.kind = "Deposit" THEN to_deposit_tx(cmd) ELSE to_withdrawal_tx(cmd)

IsTransactionCommand(cmd) == cmd.kind \in {"Deposit", "Withdrawal"}

IsClaimCommand(cmd) == cmd.kind \in {"Dispute", "Resolve", "Chargeback"}

IsError(res) == res.tag \notin {"Ok", "None"}

\* Every account that exists before the step is the same after it.
AccountsKept == \A c \in DOMAIN accounts : c \in DOMAIN accounts' /\ accounts'[c] = accounts[c]

\* C1: in every reachable state every account has available >= 0, held >= 0
\* and available + held <= MaxAsset, so AccountBalance::total never panics.
C1_BalanceInvariant ==
    \A c \in DOMAIN accounts :
        /\ accounts[c].balance.available >= 0
        /\ accounts[c].balance.held >= 0
        /\ accounts[c].balance.available + accounts[c].balance.held <= MaxAsset
        /\ ~total_panics(accounts[c].balance)

\* A Deposit whose amount fits into available but not into the total was
\* refused: the account holds a disputed amount and the balance is intact.
C1_Witness ==
    /\ last.cmd.kind = "Deposit"
    /\ last.res = Err("BalanceUpdateError")
    /\ accounts[last.cmd.client].balance.held > 0
    /\ accounts[last.cmd.client].balance.available + last.cmd.amount <= MaxAsset

\* C2: a Deposit or Withdrawal whose id is recorded with the identical
\* transaction returns Ok(()) and changes no account and no record, whatever
\* the state of the record and whether or not the account is locked.
C2_IdenticalReplayIsNoOp ==
    [][(/\ IsTransactionCommand(last'.cmd)
        /\ last'.cmd.id \in DOMAIN transactions
        /\ transactions[last'.cmd.id].tx = TransactionOf(last'.cmd))
       => (/\ last'.res = Ok
           /\ accounts' = accounts
           /\ transactions' = transactions)]_vars

\* An identical Deposit was replayed (Ok with a Rejected record can only be a
\* replay) against a locked account.
C2_Witness ==
    /\ last.cmd.kind = "Deposit"
    /\ last.res = Ok
    /\ last.cmd.id \in DOMAIN transactions
    /\ transactions[last.cmd.id].state = "Rejected"
    /\ accounts[last.cmd.client].locked

\* C3: a Deposit or Withdrawal whose id is recorded with a different kind,
\* client or amount returns TransactionIdConflict and leaves every record and
\* the available, held and locked values of every account unchanged.
C3_ConflictChangesNothing ==
    [][(/\ IsTransactionCommand(last'.cmd)
        /\ last'.cmd.id \in DOMAIN transactions
        /\ transactions[last'.cmd.id].tx # TransactionOf(last'.cmd))
       => (/\ last'.res = Err("TransactionIdConflict")
           /\ transactions' = transactions
           /\ AccountsKept)]_vars

\* A Withdrawal was refused as a conflict with a record that differs from it
\* in the amount only.
C3_Witness ==
    /\ last.cmd.kind = "Withdrawal"
    /\ last.res = Err("TransactionIdConflict")
    /\ transactions[last.cmd.id].tx.kind = "Withdrawal"
    /\ transactions[last.cmd.id].tx.client = last.cmd.client
    /\ transactions[last.cmd.id].tx.amount # last.cmd.amount

\* C4: once an account is locked it is locked in every later state.
C4_LockedForever ==
    [][\A c \in DOMAIN accounts :
          accounts[c].locked => (c \in DOMAIN accounts' /\ accounts'[c].locked)]_vars

\* A command was submitted for an account that a chargeback had locked.
C4_Witness ==
    /\ last.cmd.kind = "Deposit"
    /\ last.res = Err("Locked")
    /\ accounts[last.cmd.client].locked

\* C5: once an account is locked no command changes its available or held
\* amount, nor the state of a recorded transaction of that client.
C5_LockedIsFrozen ==
    [][\A c \in DOMAIN accounts :
          accounts[c].locked =>
              /\ c \in DOMAIN accounts'
              /\ accounts'[c].balance = accounts[c].balance
              /\ \A t \in DOMAIN transactions :
                    transactions[t].tx.client = c =>
                        /\ t \in DOMAIN transactions'
                        /\ transactions'[t].state = transactions[t].state]_vars

\* The owner of a locked account tried to resolve a transaction that is
\* still Disputed: the held amount stays held.
C5_Witness ==
    /\ last.cmd.kind = "Resolve"
    /\ last.res = Err("Locked")
    /\ transactions[last.cmd.tx].state = "Disputed"
    /\ accounts[last.cmd.client].locked
    /\ accounts[last.cmd.client].balance.held = transactions[last.cmd.tx].tx.amount

\* C6: the state of a record changes only Valid -> Disputed (by a successful
\* Dispute), Disputed -> Valid (by a successful Resolve) and
\* Disputed -> Rejected (by a successful Chargeback).
C6_StateMachine ==
    [][\A t \in DOMAIN transactions :
          /\ t \in DOMAIN transactions'
          /\ transactions'[t].state # transactions[t].state =>
                /\ <<transactions[t].state, transactions'[t].state>> \in
                       {<<"Valid", "Disputed">>, <<"Disputed", "Valid">>,
                        <<"Disputed", "Rejected">>}
                /\ last' # NoCommand =>
                       /\ last'.res = Ok
                       /\ last'.cmd.tx = t
                       /\ last'.cmd.kind =
                              CASE transactions'[t].state = "Disputed" -> "Dispute"
                                [] transactions'[t].state = "Valid" -> "Resolve"
                                [] transactions'[t].state = "Rejected" -> "Chargeback"]_vars

\* A Chargeback has just taken a record from Disputed to Rejected (a
\* Chargeback on a locked account fails, so Ok with a locked account is the
\* chargeback that locked it).
C6_Witness ==
    /\ last.cmd.kind = "Chargeback"
    /\ last.res = Ok
    /\ transactions[last.cmd.tx].state = "Rejected"
    /\ accounts[last.cmd.client].locked

\* The records after a failed command: a Deposit or Withdrawal with an unseen
\* id has added one Rejected record for it, anything else has changed none.
FailedCommandRecords ==
    IF IsTransactionCommand(last'.cmd) /\ last'.cmd.id \notin DOMAIN transactions
    THEN /\ DOMAIN transactions' = DOMAIN transactions \cup {last'.cmd.id}
         /\ transactions'[last'.cmd.id] =
                [tx |-> TransactionOf(last'.cmd), state |-> "Rejected"]
         /\ \A t \in DOMAIN transactions : transactions'[t] = transactions[t]
    ELSE transactions' = transactions

\* C7 as stated: after a command that returned an error the accounts map is
\* exactly as before (the same client ids with the same available, held and
\* locked), and the transactions map is as before except for the Rejected
\* record of a failed Deposit or Withdrawal with an unseen id.
C7_FailureKeepsBothMaps ==
    [][IsError(last'.res) => (accounts' = accounts /\ FailedCommandRecords)]_vars

\* C7 (amended): after a command that returned an error every account that
\* existed is unchanged and the transactions map is as before except for the
\* Rejected record of a failed Deposit or Withdrawal with an unseen id; a
\* failed Deposit or Withdrawal naming a client that had no account has
\* created that account with available 0, held 0 and locked = FALSE, and a
\* failed command creates no other account.
C7_FailureKeepsExistingAccounts ==
    [][IsError(last'.res) =>
          /\ AccountsKept
          /\ DOMAIN accounts' =
                 DOMAIN accounts \cup
                     (IF IsTransactionCommand(last'.cmd) THEN {last'.cmd.client} ELSE {})
          /\ \A c \in DOMAIN accounts' \ DOMAIN accounts :
                 accounts'[c] =
                     [id |-> c, locked |-> FALSE, balance |-> [available |-> 0, held |-> 0]]
          /\ FailedCommandRecords]_vars

\* A Withdrawal for a client without account failed for lack of funds: the
\* only record is its Rejected stub and the only account is the one this
\* command created.
C7_Witness ==
    /\ last.cmd.kind = "Withdrawal"
    /\ last.res = Err("InsufficientAssets")
    /\ DOMAIN transactions = {last.cmd.id}
    /\ transactions[last.cmd.id].state = "Rejected"
    /\ DOMAIN accounts = {last.cmd.client}
    /\ accounts[last.cmd.client] = MemAccount_new(last.cmd.client)

\* C8: a Dispute, Resolve or Chargeback on a recorded transaction by a client
\* that is not the transaction's client fails with InvalidClaimant{owner,
\* claimant} and changes nothing, whatever the lock and the record's state.
C8_InvalidClaimantFirst ==
    [][(/\ IsClaimCommand(last'.cmd)
        /\ last'.cmd.tx \in DOMAIN transactions
        /\ transactions[last'.cmd.tx].tx.client # last'.cmd.client)
       => (/\ last'.res = [tag |-> "InvalidClaimant",
                           owner |-> transactions[last'.cmd.tx].tx.client,
                           claimant |-> last'.cmd.client]
           /\ accounts' = accounts
           /\ transactions' = transactions)]_vars

\* A Dispute by another client was refused as InvalidClaimant although the
\* owner's account is locked and the record is Rejected.
C8_Witness ==
    /\ last.cmd.kind = "Dispute"
    /\ last.res.tag = "InvalidClaimant"
    /\ last.res.claimant = last.cmd.client
    /\ last.res.owner # last.cmd.client
    /\ accounts[last.res.owner].locked
    /\ transactions[last.cmd.tx].state = "Rejected"

\* The command is a Chargeback by the owner on a Disputed record of the
\* given kind whose account is not locked.
OwnerChargebackOfDisputed(cmd, kind) ==
    /\ cmd.kind = "Chargeback"
    /\ cmd.tx \in DOMAIN transactions
    /\ transactions[cmd.tx].tx.client = cmd.client
    /\ transactions[cmd.tx].tx.kind = kind
    /\ transactions[cmd.tx].state = "Disputed"
    /\ ~accounts[cmd.client].locked

\* The step set the record of cmd to Rejected and locked the owner's account
\* with the given balance, and changed no other record or account.
ChargedBack(cmd, new_available, new_held) ==
    /\ last'.res = Ok
    /\ transactions' = [transactions EXCEPT ![cmd.tx].state = "Rejected"]
    /\ DOMAIN accounts' = DOMAIN accounts
    /\ accounts'[cmd.client] =
           [id |-> cmd.client, locked |-> TRUE,
            balance |-> [available |-> new_available, held |-> new_held]]
    /\ \A c \in DOMAIN accounts \ {cmd.client} : accounts'[c] = accounts[c]

\* C9: a Chargeback by the owner on a Disputed Deposit of an unlocked account
\* returns Ok(()) and in one step lowers held by the amount, leaves available
\* unchanged, sets the record Rejected and locks the account.
C9_ChargebackOfDeposit ==
    [][OwnerChargebackOfDisputed(last'.cmd, "Deposit") =>
          ChargedBack(last'.cmd,
                      accounts[last'.cmd.client].balance.available,
                      accounts[last'.cmd.client].balance.held
                          - transactions[last'.cmd.tx].tx.amount)]_vars

\* Scenario C: the only transaction, a Deposit of 10, was disputed and
\* charged back; the account ends with available 0, held 0, locked.
C9_Witness ==
    /\ last.cmd.kind = "Chargeback"
    /\ last.res = Ok
    /\ DOMAIN transactions = {last.cmd.tx}
    /\ transactions[last.cmd.tx] =
           [tx |-> [kind |-> "Deposit", id |-> last.cmd.tx, client |-> last.cmd.client,
                    amount |-> 10],
            state |-> "Rejected"]
    /\ accounts[last.cmd.client] =
           [id |-> last.cmd.client, locked |-> TRUE,
            balance |-> [available |-> 0, held |-> 0]]

\* C10 as stated: a Chargeback by the owner on a Disputed Withdrawal lowers
\* held by the amount and raises available by the amount once, sets the record
\* Rejected and locks the account.
C10_ChargebackRefundsOnce ==
    [][OwnerChargebackOfDisputed(last'.cmd, "Withdrawal") =>
          ChargedBack(last'.cmd,
                      accounts[last'.cmd.client].balance.available
                          + transactions[last'.cmd.tx].tx.amount,
                      accounts[last'.cmd.client].balance.held
                          - transactions[last'.cmd.tx].tx.amount)]_vars

\* C10 (amended): a Chargeback by the owner on a Disputed Withdrawal of an
\* unlocked account, when available + 2 * amount and available + held + amount
\* are representable, returns Ok(()), lowers held by the amount and raises
\* available by twice the amount (the amount released from held and the
\* refund of the withdrawal), sets the record Rejected and locks the account;
\* otherwise it returns BalanceUpdateError and changes nothing.
C10_ChargebackOfWithdrawal ==
    [][OwnerChargebackOfDisputed(last'.cmd, "Withdrawal") =>
          LET amount == transactions[last'.cmd.tx].tx.amount
              bal == accounts[last'.cmd.client].balance
          IN  IF /\ bal.available + 2 * amount <= MaxAsset
                 /\ bal.available + bal.held + amount <= MaxAsset
              THEN ChargedBack(last'.cmd, bal.available + 2 * amount, bal.held - amount)
              ELSE /\ last'.res = Err("BalanceUpdateError")
                   /\ accounts' = accounts
                   /\ transactions' = transactions]_vars

\* Scenario E: after Deposit 10, Withdrawal 4, Dispute of the Withdrawal and
\* its Chargeback the account has available 10, held 0 and is locked.
C10_Witness ==
    /\ last.cmd.kind = "Chargeback"
    /\ last.res = Ok
    /\ withdrawal_dispute_policy = "IfMoreAvailableThanDisputed"
    /\ transactions[last.cmd.tx] =
           [tx |-> [kind |-> "Withdrawal", id |-> last.cmd.tx, client |-> last.cmd.client,
                    amount |-> 4],
            state |-> "Rejected"]
    /\ \E t \in DOMAIN transactions :
           transactions[t] =
               [tx |-> [kind |-> "Deposit", id |-> t, client |-> last.cmd.client,
                        amount |-> 10],
                state |-> "Valid"]
    /\ accounts[last.cmd.client] =
           [id |-> last.cmd.client, locked |-> TRUE,
            balance |-> [available |-> 10, held |-> 0]]

\* The command is of the given kind, submitted by the owner of a recorded
\* transaction that is in the given state and whose account is not locked.
OwnerCommandOn(cmd, kind, state) ==
    /\ cmd.kind = kind
    /\ cmd.tx \in DOMAIN transactions
    /\ transactions[cmd.tx].tx.client = cmd.client
    /\ transactions[cmd.tx].state = state
    /\ ~accounts[cmd.client].locked

\* The step returned res and changed no account and no record.
NothingChanged(res) ==
    /\ last'.res = res
    /\ accounts' = accounts
    /\ transactions' = transactions

\* The step returned Ok(()), set the record of cmd to the given state and the
\* owner's balance to the given amounts, and changed nothing else.
Moved(cmd, state, new_available, new_held) ==
    /\ last'.res = Ok
    /\ transactions' = [transactions EXCEPT ![cmd.tx].state = state]
    /\ accounts' =
           [accounts EXCEPT ![cmd.client].balance =
                                [available |-> new_available, held |-> new_held]]

\* C11: a Dispute by the owner on a Valid Deposit of an unlocked account
\* succeeds exactly when available >= amount: it then moves the amount from
\* available to held and sets the record Disputed; otherwise it fails with
\* InsufficientAssets and changes nothing.
C11_DisputeOfDeposit ==
    [][(/\ OwnerCommandOn(last'.cmd, "Dispute", "Valid")
        /\ transactions[last'.cmd.tx].tx.kind = "Deposit")
       => LET amount == transactions[last'.cmd.tx].tx.amount
              bal == accounts[last'.cmd.client].balance
          IN  IF bal.available >= amount
              THEN Moved(last'.cmd, "Disputed", bal.available - amount, bal.held + amount)
              ELSE NothingChanged(Err("InsufficientAssets"))]_vars

\* A Deposit was disputed while the account kept other available funds: the
\* deposit's amount is held and the rest is still available.
C11_Witness ==
    /\ last.cmd.kind = "Dispute"
    /\ last.res = Ok
    /\ transactions[last.cmd.tx].tx.kind = "Deposit"
    /\ transactions[last.cmd.tx].state = "Disputed"
    /\ accounts[last.cmd.client].balance.held = transactions[last.cmd.tx].tx.amount
    /\ accounts[last.cmd.client].balance.available > 0

\* The command is a Dispute by the owner of a recorded Withdrawal that is
\* Valid.
OwnerDisputeOfValidWithdrawal(cmd) ==
    /\ cmd.kind = "Dispute"
    /\ cmd.tx \in DOMAIN transactions
    /\ transactions[cmd.tx].tx.client = cmd.client
    /\ transactions[cmd.tx].tx.kind = "Withdrawal"
    /\ transactions[cmd.tx].state = "Valid"

\* What the policy decides for the Dispute cmd of a Valid Withdrawal.
PolicyDecides(cmd) ==
    LET amount == transactions[cmd.tx].tx.amount
        bal == accounts[cmd.client].balance
    IN  IF withdrawal_dispute_policy = "Deny"
        THEN NothingChanged(Err("WithdrawalDisputeDenied"))
        ELSE IF bal.available >= amount
             THEN Moved(cmd, "Disputed", bal.available - amount, bal.held + amount)
             ELSE NothingChanged(Err("InsufficientAssets"))

\* Under Deny no Withdrawal record is Disputed.
NoDisputedWithdrawalUnderDeny ==
    withdrawal_dispute_policy = "Deny" =>
        \A t \in DOMAIN transactions :
            transactions[t].tx.kind = "Withdrawal" => transactions[t].state # "Disputed"

ResolveUndoesDispute ==
    (last'.cmd.kind = "Dispute" /\ last'.res = Ok /\ last'.changed) =>
        LET undone == submit_resolve(accounts', transactions',
                                     Claim("Resolve", last'.cmd.client, last'.cmd.tx))
        IN  /\ undone.res = Ok
            /\ undone.accounts = accounts
            /\ undone.transactions = transactions

\* C13: a Resolve by the owner on a Disputed transaction of an unlocked
\* account returns Ok(()), moves the amount from held back to available, sets
\* the record Valid and leaves the account unlocked; so a Dispute followed by
\* a Resolve restores the balance and the record state.
C13_ResolveOfDisputed ==
    [][/\ OwnerCommandOn(last'.cmd, "Resolve", "Disputed") =>
              /\ Moved(last'.cmd, "Valid",
                       accounts[last'.cmd.client].balance.available
                           + transactions[last'.cmd.tx].tx.amount,
                       accounts[last'.cmd.client].balance.held
                           - transactions[last'.cmd.tx].tx.amount)
              /\ ~accounts'[last'.cmd.client].locked
       /\ ResolveUndoesDispute]_vars

\* A Resolve has just released a disputed amount (the call changed the maps)
\* while another transaction of the same client is still Disputed and held.
C13_Witness ==
    /\ last.cmd.kind = "Resolve"
    /\ last.res = Ok
    /\ last.changed
    /\ transactions[last.cmd.tx].state = "Valid"
    /\ ~accounts[last.cmd.client].locked
    /\ \E t \in DOMAIN transactions :
           /\ transactions[t].tx.client = last.cmd.client
           /\ transactions[t].state = "Disputed"
           /\ accounts[last.cmd.client].balance.held = transactions[t].tx.amount

\* C14: a Dispute on a transaction that is already Disputed and a Resolve on
\* a transaction that is Valid, by the owner with the account unlocked, return
\* Ok(()) and change no balance, lock flag or record state.
C14_RedundantClaimIsNoOp ==
    [][(\/ OwnerCommandOn(last'.cmd, "Dispute", "Disputed")
        \/ OwnerCommandOn(last'.cmd, "Resolve", "Valid")) =>
           NothingChanged(Ok)]_vars

\* A Resolve of a Valid transaction has just returned Ok without changing the
\* maps, while the amount of another transaction of the client is held: there
\* was an amount a redundant release could have moved.
C14_Witness ==
    /\ last.cmd.kind = "Resolve"
    /\ last.res = Ok
    /\ ~last.changed
    /\ last.cmd.tx \in DOMAIN transactions
    /\ transactions[last.cmd.tx].tx.client = last.cmd.client
    /\ transactions[last.cmd.tx].state = "Valid"
    /\ ~accounts[last.cmd.client].locked
    /\ accounts[last.cmd.client].balance.held >= transactions[last.cmd.tx].tx.amount

\* The other half of the case: a Dispute of a Disputed transaction has just
\* returned Ok without changing the maps.
RedundantDisputeSeen ==
    /\ last.cmd.kind = "Dispute"
    /\ last.res = Ok
    /\ ~last.changed
    /\ last.cmd.tx \in DOMAIN transactions
    /\ transactions[last.cmd.tx].tx.client = last.cmd.client
    /\ transactions[last.cmd.tx].state = "Disputed"

\* The account of a client before the step; a client without an account has
\* the account the step creates for it: zero balance, unlocked.
AccountBefore(c) == IF c \in DOMAIN accounts THEN accounts[c] ELSE MemAccount_new(c)

\* A Deposit or Withdrawal (kind) with an id that has no record, for a client
\* whose account is not locked.
UnseenOnUnlocked(cmd, kind) ==
    /\ cmd.kind = kind
    /\ cmd.id \notin DOMAIN transactions
    /\ ~AccountBefore(cmd.client).locked

\* After the step the client's account has the given available amount, its
\* held amount and lock flag are as before, and every other account is as
\* before.
OnlyAvailableSet(client, new_available) ==
    accounts' = (client :> [AccountBefore(client) EXCEPT
                               !.balance.available = new_available]) @@ accounts

\* C15: a Deposit with an unseen id on an unlocked account, when
\* available + amount + held is representable, returns Ok(()), increases the
\* account's available by exactly the amount and leaves its held amount, its
\* lock flag and every other account unchanged (Scenario A: two deposits add
\* up, held 0, locked false).
C15_DepositCredits ==
    [][(/\ UnseenOnUnlocked(last'.cmd, "Deposit")
        /\ AccountBefore(last'.cmd.client).balance.available + last'.cmd.amount
               + AccountBefore(last'.cmd.client).balance.held <= MaxAsset)
       => (/\ last'.res = Ok
           /\ OnlyAvailableSet(last'.cmd.client,
                  AccountBefore(last'.cmd.client).balance.available
                      + last'.cmd.amount))]_vars

\* Scenario A with the amounts 4 and 10: the second of two deposits of one
\* client has been accepted and the account has available 14, held 0,
\* locked false.
C15_Witness ==
    /\ last.cmd.kind = "Deposit"
    /\ last.res = Ok
    /\ last.changed
    /\ last.cmd.amount = 10
    /\ \A t \in TransactionIds :
           /\ t \in DOMAIN transactions
           /\ transactions[t].tx.kind = "Deposit"
           /\ transactions[t].tx.client = last.cmd.client
           /\ transactions[t].state = "Valid"
    /\ accounts[last.cmd.client].balance = [available |-> 14, held |-> 0]
    /\ ~accounts[last.cmd.client].locked

\* C16: a Withdrawal with an unseen id on an unlocked account succeeds exactly
\* when available >= amount, then decreasing available by the amount and
\* leaving held unchanged; when available < amount it returns
\* InsufficientAssets and the balance is unchanged (Scenario B: a withdrawal
\* larger than the deposit fails and available stays).
C16_WithdrawalDebitsIfCovered ==
    [][UnseenOnUnlocked(last'.cmd, "Withdrawal") =>
          IF AccountBefore(last'.cmd.client).balance.available >= last'.cmd.amount
          THEN /\ last'.res = Ok
               /\ OnlyAvailableSet(last'.cmd.client,
                      AccountBefore(last'.cmd.client).balance.available
                          - last'.cmd.amount)
          ELSE /\ last'.res = Err("InsufficientAssets")
               /\ OnlyAvailableSet(last'.cmd.client,
                      AccountBefore(last'.cmd.client).balance.available)]_vars

\* Scenario B with the amounts 4 and 10: after a deposit of 4 a withdrawal of
\* 10 has been refused with InsufficientAssets and available is still 4.
C16_Witness ==
    /\ last.cmd.kind = "Withdrawal"
    /\ last.res = Err("InsufficientAssets")
    /\ last.changed
    /\ last.cmd.amount = 10
    /\ \E t \in DOMAIN transactions :
           /\ transactions[t].tx = [kind |-> "Deposit", id |-> t,
                                    client |-> last.cmd.client, amount |-> 4]
           /\ transactions[t].state = "Valid"
    /\ accounts[last.cmd.client].balance = [available |-> 4, held |-> 0]
    /\ ~accounts[last.cmd.client].locked

\* C17: a Deposit or Withdrawal with an unseen id creates, in the step that
\* mutates the balance, exactly one record, for that id, holding the submitted
\* kind, client and amount; its state is Valid if and only if submit returned
\* Ok(()) and Rejected if and only if submit returned an error, and on an
\* error the balance is not changed.
C17_OneRecordPerNewTransaction ==
    [][(/\ IsTransactionCommand(last'.cmd)
        /\ last'.cmd.id \notin DOMAIN transactions)
       => (/\ DOMAIN transactions' = DOMAIN transactions \cup {last'.cmd.id}
           /\ \A t \in DOMAIN transactions : transactions'[t] = transactions[t]
           /\ transactions'[last'.cmd.id].tx =
                  [kind |-> last'.cmd.kind, id |-> last'.cmd.id,
                   client |-> last'.cmd.client, amount |-> last'.cmd.amount]
           /\ transactions'[last'.cmd.id].state \in {"Valid", "Rejected"}
           /\ transactions'[last'.cmd.id].state = "Valid" <=> last'.res = Ok
           /\ transactions'[last'.cmd.id].state = "Rejected" <=> IsError(last'.res)
           /\ IsError(last'.res) =>
                  accounts'[last'.cmd.client].balance =
                      AccountBefore(last'.cmd.client).balance)]_vars

\* A Deposit with an unseen id for a locked account has been refused and has
\* left its record, Rejected, next to the record whose chargeback locked the
\* account.
C17_Witness ==
    /\ last.cmd.kind = "Deposit"
    /\ last.res = Err("Locked")
    /\ last.changed
    /\ transactions[last.cmd.id] =
           [tx |-> [kind |-> "Deposit", id |-> last.cmd.id,
                    client |-> last.cmd.client, amount |-> last.cmd.amount],
            state |-> "Rejected"]
    /\ \E t \in DOMAIN transactions : t # last.cmd.id
    /\ accounts[last.cmd.client].locked

\* C18: a Dispute, Resolve or Chargeback that references a transaction id
\* with no record fails with NotFound(tx id) and changes nothing: no balance,
\* lock flag or record changes and no account or record is created.
C18_UnknownTransactionNotFound ==
    [][(IsClaimCommand(last'.cmd) /\ last'.cmd.tx \notin DOMAIN transactions) =>
           NothingChanged(NotFound(last'.cmd.tx))]_vars

\* A Chargeback of an id without a record, by a client without an account, has
\* been refused with NotFound while another transaction is recorded: neither
\* a record nor an account was created for it.
C18_Witness ==
    /\ last.cmd.kind = "Chargeback"
    /\ last.res = NotFound(last.cmd.tx)
    /\ ~last.changed
    /\ last.cmd.tx \notin DOMAIN transactions
    /\ last.cmd.client \notin DOMAIN accounts
    /\ DOMAIN transactions # {}

\* C19: a Chargeback by the owner on a Valid transaction (never disputed, or
\* disputed and then resolved) of an unlocked account fails with
\* NonDisputed(tx id) and changes nothing: the balance is untouched, the
\* record stays Valid and the account stays unlocked.
C19_ChargebackOfValid ==
    [][OwnerCommandOn(last'.cmd, "Chargeback", "Valid") =>
           NothingChanged(NonDisputed(last'.cmd.tx))]_vars

\* A Chargeback of a Valid Deposit has been refused with NonDisputed while
\* another Deposit of the client is Disputed: the held amount is still held,
\* the record still Valid and the account still unlocked.
C19_Witness ==
    /\ last.cmd.kind = "Chargeback"
    /\ last.res = NonDisputed(last.cmd.tx)
    /\ ~last.changed
    /\ transactions[last.cmd.tx].state = "Valid"
    /\ transactions[last.cmd.tx].tx.kind = "Deposit"
    /\ ~accounts[last.cmd.client].locked
    /\ accounts[last.cmd.client].balance.held > 0

\* C20: a Chargeback by the owner for a transaction whose state is already
\* Rejected is a no-op that returns Ok(()) and changes nothing, also when it
\* re-submits a Chargeback that succeeded, against the account that
\* chargeback locked.
C20_ChargebackOfRejectedIsNoOp ==
    [][(/\ last'.cmd.kind = "Chargeback"
        /\ last'.cmd.tx \in DOMAIN transactions
        /\ transactions[last'.cmd.tx].tx.client = last'.cmd.client
        /\ transactions[last'.cmd.tx].state = "Rejected")
       => NothingChanged(Ok)]_vars

\* The part of C20 the code has: with the owner's account unlocked (the record
\* was rejected when it was submitted), the Chargeback is an Ok no-op.
ChargebackOfRejectedUnlocked ==
    [][OwnerCommandOn(last'.cmd, "Chargeback", "Rejected") => NothingChanged(Ok)]_vars

\* The part of C20 the code does not have: the replay of a Chargeback, against
\* the account it locked, is refused with Locked.
ChargebackReplayRefused ==
    /\ last.cmd.kind = "Chargeback"
    /\ last.res = Err("Locked")
    /\ transactions[last.cmd.tx].tx.client = last.cmd.client
    /\ transactions[last.cmd.tx].state = "Rejected"
    /\ accounts[last.cmd.client].locked

\* A Deposit for a client whose account is locked.
DepositOnLocked(cmd) ==
    /\ cmd.kind = "Deposit"
    /\ cmd.client \in DOMAIN accounts
    /\ accounts[cmd.client].locked

\* C21: after a Chargeback has locked a client's account, any subsequent
\* Deposit command for that client fails with Locked.
C21_EveryDepositOnLockedFails ==
    [][DepositOnLocked(last'.cmd) => last'.res = Err("Locked")]_vars

\* C21 as the code has it: on a locked account a Deposit with an unseen id
\* fails with Locked (and leaves a Rejected record), a Deposit identical to a
\* recorded transaction returns Ok(()), and a Deposit whose id is recorded
\* with another transaction fails with TransactionIdConflict; none of them
\* changes the account.
C21_DepositOnLocked ==
    [][DepositOnLocked(last'.cmd) =>
          /\ accounts' = accounts
          /\ last'.res =
                 IF last'.cmd.id \notin DOMAIN transactions
                 THEN Err("Locked")
                 ELSE IF transactions[last'.cmd.id].tx = to_deposit_tx(last'.cmd)
                      THEN Ok
                      ELSE Err("TransactionIdConflict")]_vars

\* Scenario C: the Deposit of 10 of a client was disputed and charged back
\* (available 0, held 0, locked), and a further Deposit of the client, with
\* an unseen id, has failed with Locked.
C21_Witness ==
    /\ last.cmd.kind = "Deposit"
    /\ last.res = Err("Locked")
    /\ last.changed
    /\ \E t \in DOMAIN transactions :
           /\ t # last.cmd.id
           /\ transactions[t] = [tx |-> [kind |-> "Deposit", id |-> t,
                                         client |-> last.cmd.client, amount |-> 10],
                                 state |-> "Rejected"]
    /\ accounts[last.cmd.client] =
           [id |-> last.cmd.client, locked |-> TRUE,
            balance |-> [available |-> 0, held |-> 0]]

\* The id of the transaction a command is about.
TargetOf(cmd) == IF IsClaimCommand(cmd) THEN cmd.tx ELSE cmd.id

\* No balance is changed by the step: every account after the step has the
\* balance it had before (an account the step creates has balance zero).
NoBalanceChanged ==
    \A c \in DOMAIN accounts' : accounts'[c].balance = AccountBefore(c).balance

\* C22: a Dispute or Resolve by the owner, with the account unlocked, on a
\* Rejected transaction fails with AlreadyRejected(tx id) and changes nothing;
\* so a Deposit or Withdrawal that was rejected when first submitted never
\* changes a balance afterwards: no command about a Rejected record changes a
\* balance or the record.
C22_RejectedIsInert ==
    [][/\ (\/ OwnerCommandOn(last'.cmd, "Dispute", "Rejected")
           \/ OwnerCommandOn(last'.cmd, "Resolve", "Rejected")) =>
              NothingChanged(AlreadyRejected(last'.cmd.tx))
       /\ (/\ last' # NoCommand
           /\ TargetOf(last'.cmd) \in DOMAIN transactions
           /\ transactions[TargetOf(last'.cmd)].state = "Rejected") =>
              /\ NoBalanceChanged
              /\ transactions' = transactions]_vars

\* The owner has disputed a Withdrawal that was rejected when it was submitted
\* (its amount exceeds what the account has ever held): the Dispute failed
\* with AlreadyRejected and the available amount is in place.
C22_Witness ==
    /\ last.cmd.kind = "Dispute"
    /\ last.res = AlreadyRejected(last.cmd.tx)
    /\ ~last.changed
    /\ transactions[last.cmd.tx].tx.kind = "Withdrawal"
    /\ transactions[last.cmd.tx].tx.client = last.cmd.client
    /\ transactions[last.cmd.tx].state = "Rejected"
    /\ ~accounts[last.cmd.client].locked
    /\ accounts[last.cmd.client].balance.available > 0

\* C23: an account for a client id exists from the first command of any kind
\* that references that client id: after a command that names a client, that
\* client has an account.
C23_AnyCommandCreatesAccount ==
    [][last' # NoCommand => last'.cmd.client \in DOMAIN accounts']_vars

\* The account a command leaves for a client that had none: available 0,
\* held 0, unlocked, credited with the amount if the command is a Deposit
\* that succeeded.
CreatedAccount(cmd, res) ==
    [id |-> cmd.client, locked |-> FALSE,
     balance |-> [available |-> IF cmd.kind = "Deposit" /\ res = Ok
                                THEN cmd.amount ELSE 0,
                  held |-> 0]]

\* C23 as the code has it: an account exists from the first Deposit or
\* Withdrawal that names the client, whether the command succeeds or not,
\* created with available 0, held 0 and locked = false; a Dispute, Resolve or
\* Chargeback creates no account, not even for the client that submits it; so
\* a client that no Deposit or Withdrawal has named has no account.
C23_TransactionCommandCreatesAccount ==
    [][/\ IsTransactionCommand(last'.cmd) =>
              /\ DOMAIN accounts' = DOMAIN accounts \cup {last'.cmd.client}
              /\ last'.cmd.client \notin DOMAIN accounts =>
                     accounts'[last'.cmd.client] = CreatedAccount(last'.cmd, last'.res)
       /\ IsClaimCommand(last'.cmd) => DOMAIN accounts' = DOMAIN accounts]_vars

\* A Withdrawal, the first command to name its client, has failed and has
\* left the client an account with available 0, held 0, unlocked, next to
\* the account of another client.
C23_Witness ==
    /\ last.cmd.kind = "Withdrawal"
    /\ last.res = Err("InsufficientAssets")
    /\ last.changed
    /\ \A t \in DOMAIN transactions :
           transactions[t].tx.client = last.cmd.client => t = last.cmd.id
    /\ accounts[last.cmd.client] =
           [id |-> last.cmd.client, locked |-> FALSE,
            balance |-> [available |-> 0, held |-> 0]]
    /\ \E c \in DOMAIN accounts : c # last.cmd.client

\* A claim command has named a client that has no account, and has left it
\* without one.
ClaimantWithoutAccount ==
    /\ IsClaimCommand(last.cmd)
    /\ last.cmd.client \notin DOMAIN accounts

\* The snapshot has exactly one item per account, carrying the client's id
\* and its current balance and lock flag, and no other item.
SnapshotIsExact(accs) ==
    \A snapshot \in {get_all_accounts(accs)} :
        /\ \A c \in DOMAIN accs :
               {a \in snapshot : a.client = c} =
                   {[client |-> c, balance |-> accs[c].balance, locked |-> accs[c].locked]}
        /\ \A a \in snapshot : a.client \in DOMAIN accs
        /\ Cardinality(snapshot) = Cardinality(DOMAIN accs)

\* C24: at any point get_all_accounts yields exactly one Account per client
\* id for which an account was ever created, each carrying that client's id
\* and its current available, held and locked values; no command removes an
\* account.
C24_SnapshotOfAllAccounts ==
    [][/\ SnapshotIsExact(accounts')
       /\ DOMAIN accounts \subseteq DOMAIN accounts']_vars

\* Both clients have an account, one of them locked by a chargeback, and the
\* snapshot taken after the observed command has two items.
C24_Witness ==
    /\ last # NoCommand
    /\ DOMAIN accounts = ClientIds
    /\ \E c \in DOMAIN accounts : accounts[c].locked
    /\ \E c \in DOMAIN accounts : ~accounts[c].locked /\ accounts[c].balance.available > 0
    /\ Cardinality(get_all_accounts(accounts)) = NumClients

(* ------------------- core/fixed_decimal.rs: FixedDecimal -------------- *)

\* FixedDecimal<T, PRECISION> is a number of fractions stored in an integer
\* of type T.  The model takes a signed and an unsigned two's complement
\* type (i8, and an unsigned type with the same maximum), and every precision
\* up to MaxPrecision: one unit (10 ** PRECISION) is representable up to
\* precision 2 and not for 3, as it is for i16 up to 4 and not for 5.
SignedBits == 8

UnsignedBits == 7

MaxPrecision == 3

RECURSIVE Pow(_, _)
Pow(b, e) == IF e = 0 THEN 1 ELSE b * Pow(b, e - 1)

Signed == [signed |-> TRUE, min |-> -Pow(2, SignedBits - 1), max |-> Pow(2, SignedBits - 1) - 1]

Unsigned == [signed |-> FALSE, min |-> 0, max |-> Pow(2, UnsignedBits) - 1]

IntTypes == {Signed, Unsigned}

Precisions == 0..MaxPrecision

ValuesOf(T) == T.min..T.max

\* Option<T>.
Some(v) == [some |-> TRUE, v |-> v]

NoValue == [some |-> FALSE]

\* The checked operations of the integer type T.
int_checked(T, v) == IF v >= T.min /\ v <= T.max THEN Some(v) ELSE NoValue

int_checked_add(T, a, b) == int_checked(T, a + b)

int_checked_sub(T, a, b) == int_checked(T, a - b)

int_checked_mul(T, a, b) == int_checked(T, a * b)

\* FixedDecimal::checked_add that wraps around on overflow.
FixedDecimal_checked_add_wrapping(T, a, b) ==
    Some(T.min + ((a + b - T.min) % (T.max - T.min + 1)))

FixedDecimal_checked_add(T, a, b) == int_checked_add(T, a, b)

FixedDecimal_checked_sub(T, a, b) == int_checked_sub(T, a, b)

\* fractions_per_unit: 10 ** PRECISION, or NoValue if T cannot hold it.
RECURSIVE fractions_per_unit_loop(_, _, _)
fractions_per_unit_loop(T, fractions, rounds) ==
    IF rounds = 0
    THEN Some(fractions)
    ELSE LET next == int_checked_mul(T, fractions, 10)
         IN  IF next.some
             THEN fractions_per_unit_loop(T, next.v, rounds - 1)
             ELSE NoValue

fractions_per_unit(T, PRECISION) == fractions_per_unit_loop(T, 1, PRECISION)

\* Text is a sequence of one-byte characters.
DigitChars == <<"0", "1", "2", "3", "4", "5", "6", "7", "8", "9">>

Digits == {DigitChars[i] : i \in 1..10}

DigitChar(d) == DigitChars[d + 1]

DigitValue(c) == CHOOSE d \in 0..9 : DigitChars[d + 1] = c

\* Display of an integer of type T: the decimal digits of its magnitude,
\* most significant first, after a '-' if it is negative.
RECURSIVE nat_fmt(_)
nat_fmt(n) == IF n < 10 THEN <<DigitChar(n)>> ELSE nat_fmt(n \div 10) \o <<DigitChar(n % 10)>>

int_fmt(n) == IF n < 0 THEN <<"-">> \o nat_fmt(-n) ELSE nat_fmt(n)

\* Padding that leaves the text as it is.
pad_zero_left_none(text, width) == text

\* "{:0>width$}": the text, right-aligned in width with '0' as the fill.
RECURSIVE pad_zero_left(_, _)
pad_zero_left(text, width) ==
    IF Len(text) >= width THEN text ELSE pad_zero_left(<<"0">> \o text, width)

\* The digits of n, from right to left, as the fallback of fmt computes them
\* for a negative n whose absolute value T cannot hold.
RECURSIVE manual_digits(_)
manual_digits(n) ==
    IF n = 0
    THEN <<>>
    ELSE LET q == n \div 10
             r == n % 10
         IN  IF q < 0 /\ r # 0
             THEN <<10 - r>> \o manual_digits(q + 1)
             ELSE <<r>> \o manual_digits(q)

\* The loop of the fallback that writes the digits and the separator.
RECURSIVE manual_write(_, _, _, _)
manual_write(digits, digit_count, separator_index, i) ==
    IF i = digit_count
    THEN <<>>
    ELSE (IF i = separator_index THEN <<".">> ELSE <<>>)
         \o (IF digit_count - (i + 1) + 1 \in DOMAIN digits
             THEN int_fmt(digits[digit_count - (i + 1) + 1])
             ELSE <<"0">>)
         \o manual_write(digits, digit_count, separator_index, i + 1)

\* fmt with a fallback that does not pad the integral part with a zero.
fmt_fallback_no_pad(T, PRECISION, x) ==
    IF PRECISION = 0
    THEN int_fmt(x)
    ELSE
    LET sign == IF x < 0 THEN <<"-">> ELSE <<>>
        abs == IF x < 0 THEN int_checked_sub(T, 0, x) ELSE Some(x)
        fpu == fractions_per_unit(T, PRECISION)
    IN  IF abs.some
        THEN LET int == IF fpu.some THEN abs.v \div fpu.v ELSE 0
                 frac == IF fpu.some THEN abs.v % fpu.v ELSE abs.v
             IN  sign \o int_fmt(int) \o <<".">> \o pad_zero_left(int_fmt(frac), PRECISION)
        ELSE LET digits == manual_digits(x)
                 digit_count == Len(digits)
                 separator_index == digit_count - PRECISION
             IN  sign \o manual_write(digits, digit_count, separator_index, 0)

\* impl Display for FixedDecimal: fmt.
fmt(T, PRECISION, x) ==
    IF PRECISION = 0
    THEN int_fmt(x)
    ELSE
    LET sign == IF x < 0 THEN <<"-">> ELSE <<>>
        abs == IF x < 0 THEN int_checked_sub(T, 0, x) ELSE Some(x)
        fpu == fractions_per_unit(T, PRECISION)
    IN  IF abs.some
        THEN LET int == IF fpu.some THEN abs.v \div fpu.v ELSE 0
                 frac == IF fpu.some THEN abs.v % fpu.v ELSE abs.v
             IN  sign \o int_fmt(int) \o <<".">> \o pad_zero_left(int_fmt(frac), PRECISION)
        ELSE LET digits == manual_digits(x)
                 digit_count == IF Len(digits) > PRECISION + 1
                                THEN Len(digits) ELSE PRECISION + 1
                 separator_index == digit_count - PRECISION
             IN  sign \o manual_write(digits, digit_count, separator_index, 0)

\* Results of from_str: Ok(value) or a ParseFixedDecimalError.
ParseOk(v) == [tag |-> "Ok", value |-> v]

TooLarge == [tag |-> "TooLarge"]

TooMuchFractionalDigits(p) == [tag |-> "TooMuchFractionalDigits", precision |-> p]

InvalidChar(pos) == [tag |-> "InvalidChar", pos |-> pos]

NoDigits == [tag |-> "NoDigits"]

\* The shift that leaves the value as it is.
lex_shift_none(T, PRECISION, fractions, decimal_digits) == ParseOk(fractions)

\* The last loop of lex_digits: shift the value to the expected precision.
RECURSIVE lex_shift(_, _, _, _)
lex_shift(T, PRECISION, fractions, decimal_digits) ==
    IF decimal_digits < PRECISION
    THEN LET next == int_checked_mul(T, fractions, 10)
         IN  IF next.some
             THEN lex_shift(T, PRECISION, next.v, decimal_digits + 1)
             ELSE TooLarge
    ELSE ParseOk(fractions)

\* lex_digits from the byte at position pos (counted from 0) on; s[pos + 1]
\* is that byte.  decimal_digits is an Option<u16>.
RECURSIVE lex_digits(_, _, _, _, _, _, _, _)
lex_digits(T, PRECISION, s, pos, signum, fractions, has_digit, decimal_digits) ==
    IF pos >= Len(s)
    THEN IF ~has_digit
         THEN NoDigits
         ELSE lex_shift(T, PRECISION, fractions,
                        IF decimal_digits.some THEN decimal_digits.v ELSE 0)
    ELSE
    LET c == s[pos + 1]
    IN  IF c \in Digits
        THEN IF decimal_digits.some /\ decimal_digits.v = PRECISION
             THEN TooMuchFractionalDigits(PRECISION)
             ELSE LET digit == int_checked_mul(T, signum, DigitValue(c))
                      shifted == int_checked_mul(T, fractions, 10)
                      sum == int_checked_add(T, shifted.v, digit.v)
                  IN  IF ~digit.some THEN TooLarge
                      ELSE IF ~shifted.some THEN TooLarge
                      ELSE IF ~sum.some THEN TooLarge
                      ELSE lex_digits(T, PRECISION, s, pos + 1, signum, sum.v, TRUE,
                                      IF decimal_digits.some
                                      THEN Some(decimal_digits.v + 1)
                                      ELSE decimal_digits)
        ELSE IF c = "."
        THEN IF ~decimal_digits.some
             THEN lex_digits(T, PRECISION, s, pos + 1, signum, fractions, has_digit,
                             Some(0))
             ELSE InvalidChar(pos)
        ELSE InvalidChar(pos)

\* NegOne::neg_one: -1 if T has it.
neg_one(T) == int_checked_sub(T, 0, 1)

\* from_str that takes a leading '-' as a sign for an unsigned type too.
from_str_any_sign(T, PRECISION, s) ==
    IF Len(s) > 0 /\ s[1] = "-"
    THEN lex_digits(T, PRECISION, s, 1, IF neg_one(T).some THEN neg_one(T).v ELSE 1,
                    0, FALSE, NoValue)
    ELSE lex_digits(T, PRECISION, s, 0, 1, 0, FALSE, NoValue)

\* impl FromStr for FixedDecimal: from_str.
from_str(T, PRECISION, s) ==
    IF neg_one(T).some /\ Len(s) > 0 /\ s[1] = "-"
    THEN lex_digits(T, PRECISION, s, 1, neg_one(T).v, 0, FALSE, NoValue)
    ELSE lex_digits(T, PRECISION, s, 0, 1, 0, FALSE, NoValue)

(* ------------- calls of the operations of core.rs, one at a time ------- *)

\* The specification SpecCore observes one call of one operation of core.rs
\* or core/fixed_decimal.rs: last holds the call (its name and arguments) as
\* cmd and the value returned as res.  The two maps stay empty.
MaxLen == 4

\* The bytes of the inputs of from_str: the separator, the digits that write
\* the limits of the two integer types, and '-', which is the sign as the
\* first byte for a signed type and a byte that is neither digit nor
\* separator anywhere else.
Alphabet == {"-", ".", "0", "1", "2", "7", "8"}

Inputs == UNION {[1..n -> Alphabet] : n \in 0..MaxLen}

Assets == 0..MaxAsset

\* The balances an AccountBalance can hold: new and update let no other exist.
Balances == {[available |-> a, held |-> h] : a \in Assets, h \in 0..MaxAsset} \cap
            {b \in [available : Assets, held : Assets] : b.available + b.held <= MaxAsset}

Observe(kind, args, res) ==
    /\ last' = [cmd |-> [kind |-> kind, args |-> args], res |-> res, changed |-> FALSE]
    /\ UNCHANGED <<withdrawal_dispute_policy, transactions, accounts, cli>>

InitCore ==
    /\ withdrawal_dispute_policy = "Deny"
    /\ transactions = EmptyMap
    /\ accounts = EmptyMap
    /\ last = NoCommand
    /\ cli = NoCli

Format ==
    /\ last = NoCommand
    /\ \E T \in IntTypes, P \in Precisions :
           \E x \in ValuesOf(T) :
               Observe("fmt", [T |-> T, PRECISION |-> P, x |-> x], fmt(T, P, x))

Parse ==
    /\ last = NoCommand
    /\ \E T \in IntTypes, P \in Precisions, s \in Inputs :
           Observe("from_str", [T |-> T, PRECISION |-> P, s |-> s], from_str(T, P, s))

FixedDecimalCheckedAdd ==
    /\ last = NoCommand
    /\ \E T \in IntTypes :
           \E a \in ValuesOf(T), b \in ValuesOf(T) :
               Observe("FixedDecimal::checked_add", [T |-> T, a |-> a, b |-> b],
                       FixedDecimal_checked_add(T, a, b))

FixedDecimalCheckedSub ==
    /\ last = NoCommand
    /\ \E T \in IntTypes :
           \E a \in ValuesOf(T), b \in ValuesOf(T) :
               Observe("FixedDecimal::checked_sub", [T |-> T, a |-> a, b |-> b],
                       FixedDecimal_checked_sub(T, a, b))

CheckedAdd ==
    /\ last = NoCommand
    /\ \E a \in Assets, b \in Assets :
           Observe("checked_add", [a |-> a, b |-> b], checked_add(a, b))

CheckedSub ==
    /\ last = NoCommand
    /\ \E a \in Assets, b \in Assets :
           Observe("checked_sub", [a |-> a, b |-> b], checked_sub(a, b))

IncAvailable ==
    /\ last = NoCommand
    /\ \E bal \in Balances, amount \in Assets :
           Observe("inc_available", [bal |-> bal, amount |-> amount],
                   inc_available(bal, amount))

DecAvailable ==
    /\ last = NoCommand
    /\ \E bal \in Balances, amount \in Assets :
           Observe("dec_available", [bal |-> bal, amount |-> amount],
                   dec_available(bal, amount))

MoveAvailableToHeld ==
    /\ last = NoCommand
    /\ \E bal \in Balances, amount \in Assets :
           Observe("move_available_to_held", [bal |-> bal, amount |-> amount],
                   move_available_to_held(bal, amount))

MoveHeldToAvailable ==
    /\ last = NoCommand
    /\ \E bal \in Balances, amount \in Assets :
           Observe("move_held_to_available", [bal |-> bal, amount |-> amount],
                   move_held_to_available(bal, amount))

Update ==
    /\ last = NoCommand
    /\ \E bal \in Balances, new_available \in Assets, new_held \in Assets :
           Observe("update",
                   [bal |-> bal, new_available |-> new_available, new_held |-> new_held],
                   update(bal, new_available, new_held))

NextCore ==
    \/ Format
    \/ Parse
    \/ FixedDecimalCheckedAdd
    \/ FixedDecimalCheckedSub
    \/ CheckedAdd
    \/ CheckedSub
    \/ IncAvailable
    \/ DecAvailable
    \/ MoveAvailableToHeld
    \/ MoveHeldToAvailable
    \/ Update

SpecCore == InitCore /\ [][NextCore]_vars

\* An amount the amount type can hold.
Representable(v) == v >= 0 /\ v <= MaxAsset

\* What a balance operation has to return for a balance bal when the exact
\* new amounts are new_available and new_held: both committed if they and
\* their total are representable, else an error and the balance as it was.
AtomicUpdate(bal, new_available, new_held) ==
    IF /\ Representable(new_available)
       /\ Representable(new_held)
       /\ Representable(new_available + new_held)
    THEN [ok |-> TRUE, bal |-> [available |-> new_available, held |-> new_held]]
    ELSE [ok |-> FALSE, bal |-> bal]

\* The exact new amounts of the observed balance operation.
ExactAmounts(cmd) ==
    CASE cmd.kind = "inc_available" ->
             <<cmd.args.bal.available + cmd.args.amount, cmd.args.bal.held>>
      [] cmd.kind = "dec_available" ->
             <<cmd.args.bal.available - cmd.args.amount, cmd.args.bal.held>>
      [] cmd.kind = "move_available_to_held" ->
             <<cmd.args.bal.available - cmd.args.amount,
               cmd.args.bal.held + cmd.args.amount>>
      [] cmd.kind = "move_held_to_available" ->
             <<cmd.args.bal.available + cmd.args.amount,
               cmd.args.bal.held - cmd.args.amount>>
      [] cmd.kind = "update" -> <<cmd.args.new_available, cmd.args.new_held>>

BalanceOperations ==
    {"inc_available", "dec_available", "move_available_to_held",
     "move_held_to_available", "update"}

\* C25: each AccountBalance operation (inc_available, dec_available,
\* move_available_to_held, move_held_to_available, update) either succeeds
\* and commits the new available and held together, or fails with
\* BalanceUpdateError because a resulting available, held or total would be
\* negative or unrepresentable, and then available and held are exactly as
\* before the call.
C25_BalanceOperationsAreAtomic ==
    last.cmd.kind \in BalanceOperations =>
        last.res = AtomicUpdate(last.cmd.args.bal,
                                ExactAmounts(last.cmd)[1], ExactAmounts(last.cmd)[2])

\* move_available_to_held was called for more than is available, with room
\* for the amount in held: it failed and left both amounts as they were.
C25_Witness ==
    /\ last.cmd.kind = "move_available_to_held"
    /\ ~last.res.ok
    /\ last.cmd.args.bal.available > 0
    /\ last.cmd.args.amount > last.cmd.args.bal.available
    /\ last.cmd.args.bal.held + last.cmd.args.amount <= MaxAsset
    /\ last.res.bal = last.cmd.args.bal

\* C26: for every value x the fixed-point type can represent (the minimum and
\* the maximum of the backing integer included, and the most negative value
\* of a signed backing type), parse(format(x)) returns Ok(x).
C26_ParseOfFormat ==
    last.cmd.kind = "fmt" =>
        from_str(last.cmd.args.T, last.cmd.args.PRECISION, last.res)
            = ParseOk(last.cmd.args.x)

\* The most negative value of the signed type was formatted with a precision
\* for which one unit is not representable, and the text parses back to it.
C26_Witness ==
    /\ last.cmd.kind = "fmt"
    /\ last.cmd.args.T = Signed
    /\ last.cmd.args.x = Signed.min
    /\ ~fractions_per_unit(Signed, last.cmd.args.PRECISION).some
    /\ Head(last.res) = "-"
    /\ from_str(Signed, last.cmd.args.PRECISION, last.res) = ParseOk(Signed.min)

\* The text is an optional '-' (present exactly for a negative x), an
\* integral part of one or more digits that starts with 0 only if it is the
\* single digit 0, which it is when the magnitude is below one unit, a '.',
\* and exactly precision digits.
IsFixedText(text, precision, x) ==
    LET body == IF x < 0 THEN Tail(text) ELSE text
        n == Len(body)
    IN  /\ Len(text) > 0
        /\ x < 0 => Head(text) = "-"
        /\ n >= precision + 2
        /\ body[n - precision] = "."
        /\ \A i \in (1..n) \ {n - precision} : body[i] \in Digits
        /\ body[1] = "0" => n = precision + 2
        /\ (x < Pow(10, precision) /\ -x < Pow(10, precision)) =>
               (n = precision + 2 /\ body[1] = "0")

\* C27: for a precision P > 0, format renders every value as an optional
\* '-', an integral part with no leading zeros (the single digit 0 when the
\* magnitude is below one unit), a literal '.', and exactly P zero-padded
\* fractional digits; also for the most negative value of a signed backing
\* type, which takes the manual digit-by-digit fallback.
C27_FormatShape ==
    (last.cmd.kind = "fmt" /\ last.cmd.args.PRECISION > 0) =>
        IsFixedText(last.res, last.cmd.args.PRECISION, last.cmd.args.x)

\* The most negative value of the signed type, whose absolute value the type
\* cannot hold, was formatted by the fallback with more fractional digits
\* than it has digits: the integral part is the single digit 0.
C27_Witness ==
    /\ last.cmd.kind = "fmt"
    /\ last.cmd.args.T = Signed
    /\ last.cmd.args.x = Signed.min
    /\ ~int_checked_sub(Signed, 0, Signed.min).some
    /\ last.cmd.args.PRECISION >= Len(manual_digits(Signed.min))
    /\ SubSeq(last.res, 1, 3) = <<"-", "0", ".">>

\* C30: checked_add(a, b) returns the exact sum when it is within the range
\* of the backing integer and None otherwise, and checked_sub(a, b) returns
\* the exact difference when it is within range (for the unsigned amount
\* type: when a >= b) and None otherwise; neither returns a wrapped or
\* clamped value.
C30_CheckedArithmetic ==
    /\ last.cmd.kind = "FixedDecimal::checked_add" =>
           /\ last.cmd.args.a + last.cmd.args.b \in ValuesOf(last.cmd.args.T) =>
                  last.res = Some(last.cmd.args.a + last.cmd.args.b)
           /\ last.cmd.args.a + last.cmd.args.b \notin ValuesOf(last.cmd.args.T) =>
                  last.res = NoValue
    /\ last.cmd.kind = "FixedDecimal::checked_sub" =>
           /\ last.cmd.args.a - last.cmd.args.b \in ValuesOf(last.cmd.args.T) =>
                  last.res = Some(last.cmd.args.a - last.cmd.args.b)
           /\ last.cmd.args.a - last.cmd.args.b \notin ValuesOf(last.cmd.args.T) =>
                  last.res = NoValue
    /\ last.cmd.kind = "checked_add" =>
           /\ last.cmd.args.a + last.cmd.args.b <= MaxAsset =>
                  last.res = last.cmd.args.a + last.cmd.args.b
           /\ last.cmd.args.a + last.cmd.args.b > MaxAsset => last.res = None
    /\ last.cmd.kind = "checked_sub" =>
           /\ last.cmd.args.a >= last.cmd.args.b =>
                  last.res = last.cmd.args.a - last.cmd.args.b
           /\ last.cmd.args.a < last.cmd.args.b => last.res = None

\* Two negative values of the signed type whose sum is below its minimum
\* were added: the result is None.
C30_Witness ==
    /\ last.cmd.kind = "FixedDecimal::checked_add"
    /\ last.cmd.args.T = Signed
    /\ last.cmd.args.a < 0
    /\ last.cmd.args.b < 0
    /\ last.cmd.args.a + last.cmd.args.b < Signed.min
    /\ last.res = NoValue

\* The number a sequence of digit characters writes.
RECURSIVE DigitsNumber(_)
DigitsNumber(digits) ==
    IF digits = <<>>
    THEN 0
    ELSE 10 * DigitsNumber(SubSeq(digits, 1, Len(digits) - 1))
             + DigitValue(digits[Len(digits)])

IsDigitChar(c) == c \in Digits

\* The index of the first byte after the sign: a leading '-' is the sign for
\* a signed type only.
BodyStart(T, s) == IF T.signed /\ Len(s) > 0 /\ s[1] = "-" THEN 2 ELSE 1

SignOf(T, s) == IF BodyStart(T, s) = 2 THEN -1 ELSE 1

\* The index of the first '.', or 0.
FirstDot(s) ==
    IF \E i \in 1..Len(s) : s[i] = "."
    THEN CHOOSE i \in 1..Len(s) : s[i] = "." /\ \A j \in 1..(i - 1) : s[j] # "."
    ELSE 0

\* The number of digits among the bytes lo..hi of s.
DigitCount(s, lo, hi) == Cardinality({i \in lo..hi : s[i] \in Digits})

\* The digits that follow the first '.'.
FractionalDigits(s) == IF FirstDot(s) = 0 THEN 0 ELSE DigitCount(s, FirstDot(s) + 1, Len(s))

\* The exact value, in fractions, of the digits of the bytes 1..hi of s.
PrefixValue(T, s, hi) == SignOf(T, s) * DigitsNumber(SelectSeq(SubSeq(s, 1, hi), IsDigitChar))

\* The byte i of s is neither a digit nor the first '.' (nor the sign).
IsInvalidByte(T, s, i) ==
    /\ i >= BodyStart(T, s)
    /\ s[i] \notin Digits
    /\ ~(s[i] = "." /\ i = FirstDot(s))

\* An optional '-' (signed types), digits and at most one '.', with at least
\* one digit and at most precision fractional digits.
IsWellFormed(T, precision, s) ==
    /\ \A i \in 1..Len(s) : ~IsInvalidByte(T, s, i)
    /\ DigitCount(s, 1, Len(s)) > 0
    /\ FractionalDigits(s) <= precision

\* C28: for an input made of an optional leading '-' (signed types only),
\* decimal digits and at most one '.', with at least one digit and at most P
\* fractional digits, parse returns the value scaled to units of 10^-P (the
\* missing fractional digits padded with zeros, never rounded) exactly when
\* that value is within the range of the backing integer, the minimum of a
\* signed type included, and returns TooLarge otherwise.
C28_ParseScales ==
    (/\ last.cmd.kind = "from_str"
     /\ IsWellFormed(last.cmd.args.T, last.cmd.args.PRECISION, last.cmd.args.s)) =>
        LET scaled == PrefixValue(last.cmd.args.T, last.cmd.args.s, Len(last.cmd.args.s))
                          * Pow(10, last.cmd.args.PRECISION
                                        - FractionalDigits(last.cmd.args.s))
        IN  last.res = IF scaled \in ValuesOf(last.cmd.args.T)
                       THEN ParseOk(scaled)
                       ELSE TooLarge

\* A text with a '.' and fewer fractional digits than the precision was
\* parsed to the minimum of the signed type less its last digit, padded.
C28_Witness ==
    /\ last.cmd.kind = "from_str"
    /\ last.cmd.args.T = Signed
    /\ last.cmd.args.PRECISION = 2
    /\ last.cmd.args.s = <<"-", "1", ".", "2">>
    /\ last.res = ParseOk(-120)

\* The minimum of the signed type was parsed from its text.
ParsedMinimum ==
    /\ last.cmd.kind = "from_str"
    /\ last.cmd.args.T = Signed
    /\ last.res = ParseOk(Signed.min)

\* A well-formed text was refused as TooLarge only because of the padding.
PaddingTooLarge ==
    /\ last.cmd.kind = "from_str"
    /\ IsWellFormed(last.cmd.args.T, last.cmd.args.PRECISION, last.cmd.args.s)
    /\ PrefixValue(last.cmd.args.T, last.cmd.args.s, Len(last.cmd.args.s))
           \in ValuesOf(last.cmd.args.T)
    /\ last.res = TooLarge

\* The indices of the bytes of s that are neither a digit nor the first '.'.
InvalidBytes(T, s) == {i \in 1..Len(s) : IsInvalidByte(T, s, i)}

Minimum(S) == CHOOSE i \in S : \A j \in S : i <= j

\* C29: parse rejects malformed input with a typed error:
\* TooMuchFractionalDigits(P) when more than P digits follow the '.',
\* InvalidChar(i), with the index i (from 0) of the first offending byte, for
\* any byte that is not a digit or the first '.' (a second '.', a leading '-'
\* on an unsigned type), and NoDigits when the input contains no digit at all.
C29_ErrorPerDefect ==
    last.cmd.kind = "from_str" =>
        /\ FractionalDigits(last.cmd.args.s) > last.cmd.args.PRECISION =>
               last.res = TooMuchFractionalDigits(last.cmd.args.PRECISION)
        /\ InvalidBytes(last.cmd.args.T, last.cmd.args.s) # {} =>
               last.res = InvalidChar(
                              Minimum(InvalidBytes(last.cmd.args.T, last.cmd.args.s)) - 1)
        /\ DigitCount(last.cmd.args.s, 1, Len(last.cmd.args.s)) = 0 =>
               last.res = NoDigits

\* The byte i of s is a digit that follows the first '.' and precision other
\* digits after it.
IsExcessDigit(precision, s, i) ==
    /\ s[i] \in Digits
    /\ FirstDot(s) # 0
    /\ i > FirstDot(s)
    /\ DigitCount(s, FirstDot(s) + 1, i - 1) = precision

\* The byte i of s is a digit with which the digits read so far write a value
\* outside the range of T.
IsOverflowDigit(T, s, i) ==
    /\ s[i] \in Digits
    /\ PrefixValue(T, s, i) \notin ValuesOf(T)

\* The indices of the bytes at which the scan of s meets an error.
ErrorBytes(T, precision, s) ==
    {i \in 1..Len(s) : \/ IsInvalidByte(T, s, i)
                       \/ IsExcessDigit(precision, s, i)
                       \/ IsOverflowDigit(T, s, i)}

\* The error of the first byte at which the scan meets one.
FirstError(T, precision, s) ==
    LET i == Minimum(ErrorBytes(T, precision, s))
    IN  IF IsInvalidByte(T, s, i) THEN InvalidChar(i - 1)
        ELSE IF IsExcessDigit(precision, s, i) THEN TooMuchFractionalDigits(precision)
        ELSE TooLarge

\* C29 as the code has it: parse scans the bytes from left to right and
\* returns the error of the first byte at which one arises, whatever follows:
\* InvalidChar(i) at a byte that is not a digit or the first '.',
\* TooMuchFractionalDigits(P) at the digit that follows P digits after the
\* '.', TooLarge at a digit with which the digits read so far leave the range.
\* NoDigits is returned when the scan meets no such byte and the input has no
\* digit.
C29_FirstErrorWins ==
    last.cmd.kind = "from_str" =>
        IF ErrorBytes(last.cmd.args.T, last.cmd.args.PRECISION, last.cmd.args.s) # {}
        THEN last.res = FirstError(last.cmd.args.T, last.cmd.args.PRECISION,
                                   last.cmd.args.s)
        ELSE IF DigitCount(last.cmd.args.s, 1, Len(last.cmd.args.s)) = 0
             THEN last.res = NoDigits
             ELSE last.res.tag \in {"Ok", "TooLarge"}

\* A text with too many fractional digits and, after them, a byte that is
\* neither a digit nor a '.' was refused for the fractional digits.
C29_Witness ==
    /\ last.cmd.kind = "from_str"
    /\ last.res = TooMuchFractionalDigits(last.cmd.args.PRECISION)
    /\ InvalidBytes(last.cmd.args.T, last.cmd.args.s) # {}
    /\ last.cmd.args.s[Len(last.cmd.args.s)] = "-"

\* A leading '-' was refused as the byte 0 of a text for the unsigned type.
SignOnUnsigned ==
    /\ last.cmd.kind = "from_str"
    /\ last.cmd.args.T = Unsigned
    /\ Len(last.cmd.args.s) > 1
    /\ last.cmd.args.s[1] = "-"
    /\ last.cmd.args.s[2] \in Digits
    /\ last.res = InvalidChar(0)

\* C31: a Deposit with an unseen id on an unlocked account returns
\* BalanceUpdateError exactly when available + amount + held exceeds the
\* maximum representable amount (also when available + amount alone fits but
\* adding held does not); the balance is then unchanged and the id is
\* recorded as Rejected.
C31_DepositOverflow ==
    [][UnseenOnUnlocked(last'.cmd, "Deposit") =>
          /\ last'.res = Err("BalanceUpdateError") <=>
                 AccountBefore(last'.cmd.client).balance.available + last'.cmd.amount
                     + AccountBefore(last'.cmd.client).balance.held > MaxAsset
          /\ last'.res = Err("BalanceUpdateError") =>
                 /\ OnlyAvailableSet(last'.cmd.client,
                        AccountBefore(last'.cmd.client).balance.available)
                 /\ transactions' =
                        (last'.cmd.id :> [tx |-> to_deposit_tx(last'.cmd),
                                          state |-> "Rejected"]) @@ transactions]_vars

\* A Deposit of 10 was refused with BalanceUpdateError on an account with
\* available 0 and 10 held: available + amount fits, the total does not; the
\* balance is as before and the id is recorded as Rejected.
C31_Witness ==
    /\ last.cmd.kind = "Deposit"
    /\ last.cmd.amount = 10
    /\ last.res = Err("BalanceUpdateError")
    /\ last.changed
    /\ accounts[last.cmd.client] =
           [id |-> last.cmd.client, locked |-> FALSE,
            balance |-> [available |-> 0, held |-> 10]]
    /\ transactions[last.cmd.id].state = "Rejected"

\* Every record is stored under its own id and every account under its own
\* client id.
KeysAreIds(accs, txs) ==
    /\ \A t \in DOMAIN txs : txs[t].tx.id = t
    /\ \A c \in DOMAIN accs : accs[c].id = c

\* C33: in every reachable state each transaction record is stored under the
\* key equal to its own id and each account under the key equal to its own
\* client id; a record's kind, client and amount never change after creation
\* (only the first submission for an id is stored) and records are never
\* removed.
C33_RecordsArePermanent ==
    [][/\ KeysAreIds(accounts', transactions')
       /\ \A t \in DOMAIN transactions :
              /\ t \in DOMAIN transactions'
              /\ transactions'[t].tx = transactions[t].tx]_vars

\* A Deposit was submitted under the id of a recorded Withdrawal of another
\* client: it was refused and the record still holds the Withdrawal.
C33_Witness ==
    /\ last.cmd.kind = "Deposit"
    /\ last.res = Err("TransactionIdConflict")
    /\ transactions[last.cmd.id].tx.id = last.cmd.id
    /\ transactions[last.cmd.id].tx.kind = "Withdrawal"
    /\ transactions[last.cmd.id].tx.client # last.cmd.client
    /\ accounts[last.cmd.client].id = last.cmd.client

\* The amount a record contributes to the held amount of a client: its
\* amount if it is a Disputed transaction of the client.
HeldBy(rec, client) ==
    IF rec.tx.client = client /\ rec.state = "Disputed" THEN rec.tx.amount ELSE 0

\* The sum of the amounts of the client's Disputed transactions among the
\* ids 1..n.
RECURSIVE SumOfDisputed(_, _, _)
SumOfDisputed(txs, client, n) ==
    IF n = 0
    THEN 0
    ELSE (IF n \in DOMAIN txs THEN HeldBy(txs[n], client) ELSE 0)
             + SumOfDisputed(txs, client, n - 1)

\* C34: in every reachable state each account's held amount equals the sum of
\* the amounts of that client's transactions currently Disputed (so held is 0
\* when the client has no open dispute).
C34_HeldIsDisputed ==
    \A c \in DOMAIN accounts :
        accounts[c].balance.held = SumOfDisputed(transactions, c, NumTx)

\* The ids of the records of a client with a kind in kinds and a state in
\* states.
RecordsOf(txs, client, kinds, states) ==
    {t \in DOMAIN txs : /\ txs[t].tx.client = client
                        /\ txs[t].tx.kind \in kinds
                        /\ txs[t].state \in states}

\* Both transactions of a client are Disputed and the account holds the sum
\* of their amounts.
C34_Witness ==
    /\ withdrawal_dispute_policy = "IfMoreAvailableThanDisputed"
    /\ \E c \in DOMAIN accounts :
           /\ RecordsOf(transactions, c, {"Deposit", "Withdrawal"}, {"Disputed"})
                  = TransactionIds
           /\ accounts[c].balance.held = 14

\* The amount a record contributes to the total of a client: nothing if it
\* is Rejected or of another client, its amount if it is a Deposit, minus its
\* amount if it is a Withdrawal.
NetOf(rec, client) ==
    IF rec.tx.client # client \/ rec.state = "Rejected"
    THEN 0
    ELSE IF rec.tx.kind = "Deposit" THEN rec.tx.amount ELSE 0 - rec.tx.amount

\* The sum of the amounts of the client's non-Rejected Deposits minus the sum
\* of the amounts of its non-Rejected Withdrawals, among the ids 1..n.
RECURSIVE NetOfAccepted(_, _, _)
NetOfAccepted(txs, client, n) ==
    IF n = 0
    THEN 0
    ELSE (IF n \in DOMAIN txs THEN NetOf(txs[n], client) ELSE 0)
             + NetOfAccepted(txs, client, n - 1)

\* C35: in every reachable state each account's total (available + held)
\* equals the sum of the amounts of that client's non-Rejected Deposits minus
\* the sum of the amounts of its non-Rejected Withdrawals; so charging back a
\* Withdrawal raises the total by its amount and charging back a Deposit
\* lowers it by its amount.
C35_TotalIsNetOfAccepted ==
    \A c \in DOMAIN accounts :
        accounts[c].balance.available + accounts[c].balance.held =
            NetOfAccepted(transactions, c, NumTx)

\* A Withdrawal of 4 from a Deposit of 10 was disputed and charged back: the
\* Withdrawal is Rejected and the total is back at 10.
C35_Witness ==
    \E c \in DOMAIN accounts, w, d \in DOMAIN transactions :
        /\ transactions[w] = [tx |-> [kind |-> "Withdrawal", id |-> w, client |-> c,
                                      amount |-> 4],
                              state |-> "Rejected"]
        /\ transactions[d] = [tx |-> [kind |-> "Deposit", id |-> d, client |-> c,
                                      amount |-> 10],
                              state |-> "Valid"]
        /\ accounts[c].locked
        /\ accounts[c].balance = [available |-> 10, held |-> 0]

\* The step takes the record with id t from Disputed to Rejected.
ChargedBackByStep(t) ==
    /\ transactions[t].state = "Disputed"
    /\ transactions'[t].state = "Rejected"

\* C36: an account is locked if and only if one of that client's
\* transactions went through a successful Chargeback (Disputed to Rejected);
\* at most one such chargeback ever happens per account, and any of the
\* client's transactions still Disputed at that moment stay Disputed, with
\* their amounts held, forever.  As steps: a step that takes a record from
\* Disputed to Rejected is a Chargeback by the owner that returns Ok, finds
\* the owner's account unlocked, locks it and changes no other record; an
\* unlocked account becomes locked only by such a step, and a Chargeback that
\* changes something is such a step; a locked account stays locked, and its
\* Disputed records and held amount stay as they are.
C36_LockedIffChargedBack ==
    [][/\ \A t \in DOMAIN transactions :
              ChargedBackByStep(t) =>
                  \A c \in {transactions[t].tx.client} :
                      /\ ~accounts[c].locked
                      /\ accounts'[c].locked
                      /\ \A u \in DOMAIN transactions \ {t} :
                             transactions'[u] = transactions[u]
                      /\ last' # NoCommand =>
                             /\ last'.cmd = Claim("Chargeback", c, t)
                             /\ last'.res = Ok
       /\ \A c \in DOMAIN accounts' :
              IF AccountBefore(c).locked
              THEN /\ accounts'[c].locked
                   /\ accounts'[c].balance.held = accounts[c].balance.held
                   /\ \A t \in DOMAIN transactions :
                          (/\ transactions[t].tx.client = c
                           /\ transactions[t].state = "Disputed") =>
                              transactions'[t] = transactions[t]
              ELSE accounts'[c].locked =>
                       \E t \in DOMAIN transactions :
                           /\ transactions[t].tx.client = c
                           /\ ChargedBackByStep(t)
       /\ (/\ last'.cmd.kind = "Chargeback"
           /\ last'.res = Ok
           /\ last'.changed) => ChargedBackByStep(last'.cmd.tx)]_vars

\* One transaction of a client was charged back and the account is locked;
\* a Chargeback of the client's other transaction, still Disputed, was
\* refused with Locked, and its amount stays held.
C36_Witness ==
    /\ last.cmd.kind = "Chargeback"
    /\ last.res = Err("Locked")
    /\ transactions[last.cmd.tx].state = "Disputed"
    /\ transactions[last.cmd.tx].tx.client = last.cmd.client
    /\ \E t \in DOMAIN transactions :
           /\ transactions[t].tx.client = last.cmd.client
           /\ transactions[t].state = "Rejected"
    /\ accounts[last.cmd.client].locked
    /\ accounts[last.cmd.client].balance.held = transactions[last.cmd.tx].tx.amount

\* C37: BalanceUpdateError is never returned by a Withdrawal, a Dispute, a
\* Resolve or the Chargeback of a Deposit (their guards make overflow and
\* underflow impossible); it can only be returned by a Deposit and by the
\* Chargeback of a disputed Withdrawal whose refund overflows.  A refused
\* Chargeback changes nothing, so the record and the balance that made it
\* overflow are those of the state it leaves.
C37_BalanceUpdateErrorSources ==
    last.res = Err("BalanceUpdateError") =>
        \/ last.cmd.kind = "Deposit"
        \/ /\ last.cmd.kind = "Chargeback"
           /\ last.cmd.tx \in DOMAIN transactions
           /\ transactions[last.cmd.tx].tx.kind = "Withdrawal"
           /\ transactions[last.cmd.tx].state = "Disputed"
           /\ LET bal == accounts[last.cmd.client].balance
                  amount == transactions[last.cmd.tx].tx.amount
              IN  \/ bal.available + 2 * amount > MaxAsset
                  \/ bal.available + 2 * amount + (bal.held - amount) > MaxAsset

\* A Deposit was refused with BalanceUpdateError on an account that holds
\* nothing: available + amount alone overflows.
C37_Witness ==
    /\ last.cmd.kind = "Deposit"
    /\ last.res = Err("BalanceUpdateError")
    /\ accounts[last.cmd.client].balance.held = 0
    /\ accounts[last.cmd.client].balance.available + last.cmd.amount > MaxAsset

\* C38: for every reachable state and every command, submitting the same
\* command twice in a row leaves the engine in exactly the state reached
\* after submitting it once: submitting the command of a step again, to the
\* maps the step leaves, changes neither map.
C38_TwiceIsOnce ==
    [][last' # NoCommand =>
          \A again \in {submit(withdrawal_dispute_policy, accounts', transactions',
                               last'.cmd)} :
              /\ again.accounts = accounts'
              /\ again.transactions = transactions']_vars

\* A Dispute held a Deposit of 4 and the account still has 10 available: a
\* second hold of the same amount would be covered.
C38_Witness ==
    /\ last.cmd.kind = "Dispute"
    /\ last.res = Ok
    /\ last.changed
    /\ transactions[last.cmd.tx].state = "Disputed"
    /\ accounts[last.cmd.client].balance = [available |-> 10, held |-> 4]

\* C39: for a Deposit or Withdrawal the checks run in the order existing-id
\* comparison, then lock, then (Withdrawal only) funds.  A command with an id
\* already recorded returns Ok(()) if identical to the recorded transaction
\* and TransactionIdConflict if different, never Locked, also on a locked
\* account; a command with an unseen id on a locked account returns Locked,
\* even a Withdrawal exceeding available, and records the id as Rejected; a
\* Withdrawal with an unseen id exceeding available on an unlocked account
\* returns InsufficientAssets.
C39_OrderOfChecks ==
    [][IsTransactionCommand(last'.cmd) =>
          IF last'.cmd.id \in DOMAIN transactions
          THEN /\ transactions' = transactions
               /\ accounts' = (last'.cmd.client :> AccountBefore(last'.cmd.client))
                                  @@ accounts
               /\ last'.res = IF transactions[last'.cmd.id].tx = TransactionOf(last'.cmd)
                              THEN Ok
                              ELSE Err("TransactionIdConflict")
          ELSE IF AccountBefore(last'.cmd.client).locked
          THEN /\ last'.res = Err("Locked")
               /\ accounts' = accounts
               /\ transactions' =
                      (last'.cmd.id :> rejected(TransactionOf(last'.cmd))) @@ transactions
          ELSE (/\ last'.cmd.kind = "Withdrawal"
                /\ AccountBefore(last'.cmd.client).balance.available < last'.cmd.amount)
                   => last'.res = Err("InsufficientAssets")]_vars

\* On a locked account with nothing available a Withdrawal with an unseen id
\* was refused with Locked, not InsufficientAssets, and recorded as Rejected.
C39_Witness ==
    /\ last.cmd.kind = "Withdrawal"
    /\ last.res = Err("Locked")
    /\ last.changed
    /\ accounts[last.cmd.client].locked
    /\ accounts[last.cmd.client].balance.available < last.cmd.amount
    /\ transactions[last.cmd.id] = rejected(to_withdrawal_tx(last.cmd))

\* What submit of account/mem.rs does with the command of the step, from the
\* state before the step.
MemOutcome == mem_submit(withdrawal_dispute_policy, accounts, transactions, last'.cmd)

\* What submit of account_service.rs returned in the step: the handler's
\* result, converted to the SubmitError variant of the command's kind.
ServiceResult ==
    SubmitError(last'.cmd.kind, Outcome(accounts', transactions', last'.res)).res

\* The step is a Chargeback that reaches the match on the record's state (the
\* record exists, the claimant owns it, the account is not locked) and finds
\* the given state.
ChargebackReaches(state) == OwnerCommandOn(last'.cmd, "Chargeback", state)

\* C40: the two engine variants in the repository (account/mem.rs, used by
\* the CLI, and account_service.rs) are state-equivalent: fed the same command
\* sequence under the same policy they reach identical accounts (available,
\* held, locked) and identical transaction records after every command, and
\* their results differ only for a Chargeback on a Valid record (Ok no-op
\* versus NonDisputed) and on a Rejected record of an unlocked account
\* (AlreadyRejected versus Ok no-op).
C40_EnginesDifferInTwoResults ==
    [][last' # NoCommand =>
          /\ MemOutcome.accounts = accounts'
          /\ MemOutcome.transactions = transactions'
          /\ MemOutcome.res # ServiceResult =>
                 \/ /\ ChargebackReaches("Valid")
                    /\ MemOutcome.res = Ok
                    /\ last'.res = NonDisputed(last'.cmd.tx)
                 \/ /\ ChargebackReaches("Rejected")
                    /\ MemOutcome.res.source = AlreadyRejected(last'.cmd.tx)
                    /\ last'.res = Ok]_vars

\* The error a result of submit carries, without the SubmitError variant
\* around it.
SourceOf(res) == IF res = Ok THEN Ok ELSE res.source

\* What holds of the two engines: the same maps after every command, and
\* handler results that differ, apart from their error type, only in the two
\* cases of C40.
EnginesAgreeUpToErrorType ==
    [][last' # NoCommand =>
          /\ MemOutcome.accounts = accounts'
          /\ MemOutcome.transactions = transactions'
          /\ IF ChargebackReaches("Valid")
             THEN MemOutcome.res = Ok /\ last'.res = NonDisputed(last'.cmd.tx)
             ELSE IF ChargebackReaches("Rejected")
             THEN /\ SourceOf(MemOutcome.res) = AlreadyRejected(last'.cmd.tx)
                  /\ last'.res = Ok
             ELSE SourceOf(MemOutcome.res) = last'.res]_vars

\* Every failing Chargeback is a Resolve error for account/mem.rs and a
\* Chargeback error for account_service.rs.
ChargebackErrorsDifferInType ==
    [][(last'.cmd.kind = "Chargeback" /\ IsError(last'.res)) =>
          /\ ServiceResult.variant = "Chargeback"
          /\ MemOutcome.res # Ok => MemOutcome.res.variant = "Resolve"]_vars

(* ---------------- cli.rs and csv.rs: the command line program ---------- *)

\* The longest input of the program.
MaxRows == 3

\* A row the csv reader could not deserialize as a CommandRecord.
CsvError == [csv |-> "Err"]

\* A row deserialized as a CommandRecord; amount is None when the column is
\* empty.
CommandRecord(type, client, tx, amount) ==
    [csv |-> "Ok", type |-> type, client |-> client, tx |-> tx, amount |-> amount]

\* The rows an input is made of.
CsvRows ==
    {CsvError,
     CommandRecord("deposit", 1, 1, 10),
     CommandRecord("deposit", 1, 1, None),
     CommandRecord("deposit", 2, 2, 4),
     CommandRecord("withdrawal", 1, 3, 4),
     CommandRecord("dispute", 1, 1, None),
     CommandRecord("resolve", 1, 1, None),
     CommandRecord("chargeback", 1, 1, None)}

CsvInputs == UNION {[1..n -> CsvRows] : n \in 0..MaxRows}

\* TryFrom<CommandRecord> for Command: a deposit or withdrawal needs its
\* amount; a claim ignores the amount column.
Command_try_from(record) ==
    CASE record.type = "deposit" ->
             IF record.amount = None
             THEN [ok |-> FALSE, error |-> [tag |-> "ValidationError", type |-> "Deposit"]]
             ELSE [ok |-> TRUE,
                   cmd |-> TransactionMeta("Deposit", record.tx, record.client,
                                           record.amount)]
      [] record.type = "withdrawal" ->
             IF record.amount = None
             THEN [ok |-> FALSE,
                   error |-> [tag |-> "ValidationError", type |-> "Withdrawal"]]
             ELSE [ok |-> TRUE,
                   cmd |-> TransactionMeta("Withdrawal", record.tx, record.client,
                                           record.amount)]
      [] record.type = "dispute" ->
             [ok |-> TRUE, cmd |-> Claim("Dispute", record.client, record.tx)]
      [] record.type = "resolve" ->
             [ok |-> TRUE, cmd |-> Claim("Resolve", record.client, record.tx)]
      [] record.type = "chargeback" ->
             [ok |-> TRUE, cmd |-> Claim("Chargeback", record.client, record.tx)]

\* CsvCommandIter::next: the record field of the row it yields.
CsvCommandIter_next(r) ==
    IF r.csv = "Err"
    THEN [ok |-> FALSE, error |-> [tag |-> "Csv"]]
    ELSE Command_try_from(r)

\* print_error: the line "Command #n failed" and the error it is followed by.
print_error(error, pos) == [record |-> pos, error |-> error]

\* The body of the loop of with_io that ends the run at the first command
\* the engine refuses.
loop_body_return_on_error(policy, accs, txs, r, pos) ==
    LET record == CsvCommandIter_next(r)
        out == mem_submit(policy, accs, txs, record.cmd)
    IN  IF ~record.ok
        THEN [accounts |-> accs, transactions |-> txs, submitted |-> <<>>,
              printed |-> <<print_error(record.error, pos)>>, flow |-> "continue"]
        ELSE IF out.res = Ok
        THEN [accounts |-> out.accounts, transactions |-> out.transactions,
              submitted |-> <<record.cmd>>, printed |-> <<>>, flow |-> "continue"]
        ELSE [accounts |-> out.accounts, transactions |-> out.transactions,
              submitted |-> <<record.cmd>>,
              printed |-> <<print_error(out.res, pos)>>, flow |-> "return"]

\* The body of the loop of with_io for one row: a row that is no command is
\* reported and skipped; a command is submitted, and reported when the engine
\* refuses it.  Either way the loop goes on with the next row.
loop_body(policy, accs, txs, r, pos) ==
    LET record == CsvCommandIter_next(r)
        out == mem_submit(policy, accs, txs, record.cmd)
    IN  IF ~record.ok
        THEN [accounts |-> accs, transactions |-> txs, submitted |-> <<>>,
              printed |-> <<print_error(record.error, pos)>>, flow |-> "continue"]
        ELSE IF out.res = Ok
        THEN [accounts |-> out.accounts, transactions |-> out.transactions,
              submitted |-> <<record.cmd>>, printed |-> <<>>, flow |-> "continue"]
        ELSE [accounts |-> out.accounts, transactions |-> out.transactions,
              submitted |-> <<record.cmd>>,
              printed |-> <<print_error(out.res, pos)>>, flow |-> "continue"]

\* TryFrom<Account> for AccountRecord: the line written for an account.
AccountRecord_try_from(account) ==
    [client |-> account.client,
     available |-> account.balance.available,
     held |-> account.balance.held,
     total |-> account.balance.available + account.balance.held,
     locked |-> account.locked]

\* CsvAccountWriter::write_headers
Headers == <<"client", "available", "held", "total", "locked">>

\* The orders in which the items of a set can be yielded.
OrdersOf(S) ==
    {f \in [1..Cardinality(S) -> S] : \A i, j \in 1..Cardinality(S) : f[i] = f[j] => i = j}

\* accounts.sort_by(ClientId::cmp)
SortedByClient(S) ==
    CHOOSE f \in OrdersOf(S) : \A i, j \in 1..Cardinality(S) :
        i < j => f[i].client < f[j].client

\* The lines with_io writes for the accounts in the given order.
OutputLines(order) ==
    <<Headers>> \o [i \in 1..Len(order) |-> AccountRecord_try_from(order[i])]

\* A run of the program starts: the reader, the writer and a new engine.
InitCli ==
    /\ withdrawal_dispute_policy \in Policies
    /\ transactions = EmptyMap
    /\ accounts = EmptyMap
    /\ last = NoCommand
    /\ \E rows \in CsvInputs, sort \in BOOLEAN :
           cli = [NoCli EXCEPT !.rows = rows, !.sort = sort, !.pc = "loop"]

\* One iteration of `for row in csv_reader.commands()`.
ProcessRow ==
    /\ cli.pc = "loop"
    /\ cli.row <= Len(cli.rows)
    /\ \E step \in {loop_body(withdrawal_dispute_policy, accounts, transactions,
                              cli.rows[cli.row], cli.row)} :
           /\ accounts' = step.accounts
           /\ transactions' = step.transactions
           /\ cli' = [cli EXCEPT
                         !.row = cli.row + 1,
                         !.submitted = cli.submitted \o step.submitted,
                         !.err_output = cli.err_output \o step.printed,
                         !.pc = IF step.flow = "continue" THEN "loop" ELSE "done",
                         !.res = IF step.flow = "continue" THEN cli.res
                                 ELSE [tag |-> "Err"]]
    /\ UNCHANGED <<withdrawal_dispute_policy, last>>

\* The end of with_io, once the iterator is exhausted: the accounts are
\* taken from the engine and written after the headers, sorted by client id
\* if asked for and otherwise in the order of the hash map; a failure of the
\* output ends the run with an error after some of the lines.
WriteAccounts ==
    /\ cli.pc = "loop"
    /\ cli.row > Len(cli.rows)
    /\ \E order \in (IF cli.sort
                     THEN {SortedByClient(mem_get_all_accounts(accounts))}
                     ELSE OrdersOf(mem_get_all_accounts(accounts))),
          written \in 0..(Cardinality(DOMAIN accounts) + 1), io_ok \in BOOLEAN :
           /\ io_ok => written = Cardinality(DOMAIN accounts) + 1
           /\ cli' = [cli EXCEPT
                         !.output = SubSeq(OutputLines(order), 1, written),
                         !.pc = "done",
                         !.res = IF io_ok THEN Ok ELSE [tag |-> "Err"]]
    /\ UNCHANGED <<withdrawal_dispute_policy, transactions, accounts, last>>

NextCli ==
    \/ ProcessRow
    \/ WriteAccounts

SpecCli == InitCli /\ [][NextCli]_vars

\* A row that states a command: it was deserialized, and a deposit or a
\* withdrawal has its amount.
IsWellFormedRow(r) ==
    /\ r.csv = "Ok"
    /\ r.type \in {"deposit", "withdrawal"} => r.amount # None

\* The commands of the well-formed rows of an input, in input order.
RECURSIVE WellFormedCommands(_)
WellFormedCommands(rows) ==
    IF rows = <<>>
    THEN <<>>
    ELSE (IF IsWellFormedRow(Head(rows))
          THEN <<Command_try_from(Head(rows)).cmd>>
          ELSE <<>>) \o WellFormedCommands(Tail(rows))

\* The maps of a new engine of account/mem.rs after the commands, each
\* submitted once, in order.
RECURSIVE Replay(_, _)
Replay(policy, cmds) ==
    IF cmds = <<>>
    THEN Outcome(EmptyMap, EmptyMap, Ok)
    ELSE LET before == Replay(policy, SubSeq(cmds, 1, Len(cmds) - 1))
         IN  mem_submit(policy, before.accounts, before.transactions, cmds[Len(cmds)])

\* The lines of the accounts in the output, without the headers.
AccountLines == {cli.output[i] : i \in 2..Len(cli.output)}

====
